---- MODULE Spec2Model ----
(***************************************************************************)
(* The book replica of the order-book visualizer (src/src/main.rs): the    *)
(* consumer MyApp that drains the event channel, applies snapshots and     *)
(* depth updates to its bids/asks maps, keeps last_applied_u / is_synced,  *)
(* buffers early updates and try-sends control commands on the capacity-1  *)
(* control channel.                                                        *)
(*                                                                         *)
(* Prices and quantities are rust_decimal Decimals; they are modelled as   *)
(* integers (multiples of the venue's tick / step), on which Decimal       *)
(* addition, subtraction, comparison and equality are exact.               *)
(***************************************************************************)
EXTENDS Integers, Sequences, FiniteSets, TLC

(***************************************************************************)
(* Bounds of the model.                                                    *)
(***************************************************************************)
\* largest aggregate quantity a row reports
MaxQty == 3
\* largest update id a message carries
MaxId == 2
\* the replica holds at most this many inferred orders (levels can grow
\* without limit otherwise); an event that would exceed it is not delivered
MaxOrders == 3
\* at most this many updates are buffered before the first snapshot
MaxBuf == 2

\* capacity of the control channel: mpsc::channel(1)
ControlCap == 1

\* the orchestrator starts at most this many sessions
MaxSessions == 2
\* a session's socket reader turns at most this many frames into messages
MaxEmit == 2
\* capacity of an adapter's channel, mpsc::channel(1000), scaled down
AdapterCap == 1
\* the unbounded event channel holds at most this many messages in the model
MaxEvents == 2
\* largest book time of venue B (and reading of the local clock)
MaxTime == 3
\* largest quantity of an order handed to the clusterer
MaxPointQty == 3
\* a socket receives at most this many ping frames
MaxPings == 2

Prices == {1, 2}
Symbols == {"dogeusdt", "SOL"}
ExchangeTypes == {"Binance", "Hyperliquid"}

VARIABLES
    bids,             \* MyApp.bids: BTreeMap<Decimal, VecDeque<Decimal>>
    asks,             \* MyApp.asks
    last_applied_u,   \* MyApp.last_applied_u
    is_synced,        \* MyApp.is_synced
    update_buffer,    \* MyApp.update_buffer
    control,          \* the control channel (control_tx -> control_rx)
    symbol,           \* MyApp.symbol
    current_exchange, \* MyApp.current_exchange
    msg,              \* the message of the current iteration of the drain loop
    outcome,          \* the branch the current iteration took
    reported,         \* history: the aggregate last reported per side and price
    before,           \* history: both sides and the ids of the buffered diffs
                      \* as the current iteration found them
    gapped,           \* history: a synced replica found a gap and no snapshot
                      \* has been applied since
    orch,             \* fetch_and_stream_loop: its position, symbol,
                      \* exchange_type, the number of sessions it started
                      \* and (history) those whose get_snapshot returned Ok
    reader,           \* per session, the task an adapter's connect spawned,
                      \* with the payloads of the pings its socket received
                      \* (history) and of the pongs it wrote to the socket
    chan,             \* per session, the adapter's channel (tx -> rx)
    forwarder,        \* per session, the task ws_handle
    events,           \* the event channel (tx, tx_clone -> MyApp.rx)
    kmeans,           \* the MiniBatchKMeans instance of the current frame
    fitted            \* the input and the labels of its last fit (history)
                      \* and the clustered orders built from them

vars == <<bids, asks, last_applied_u, is_synced, update_buffer, control,
          symbol, current_exchange, msg, outcome, reported, before, gapped,
          orch, reader, chan, forwarder, events, kmeans, fitted>>

\* the ingestion worker and its channels
pipeline == <<orch, reader, chan, forwarder, events>>

\* the clusterer of the k-means view
clustering == <<kmeans, fitted>>

\* what a step of the drain loop or of the user leaves alone
rest == <<pipeline, clustering>>

\* the replica, the control channel and the drain loop
drain == <<bids, asks, last_applied_u, is_synced, update_buffer, control,
           symbol, current_exchange, msg, outcome, reported, before, gapped>>

(***************************************************************************)
(* Sequences and maps.                                                     *)
(***************************************************************************)
RECURSIVE SumSeq(_)
SumSeq(s) == IF s = <<>> THEN 0 ELSE Head(s) + SumSeq(Tail(s))

MaxOfSeq(s) == CHOOSE x \in {s[i] : i \in 1..Len(s)} :
                   \A j \in 1..Len(s) : s[j] <= x

\* Iterator::position: the first index holding x
Position(s, x) == CHOOSE i \in 1..Len(s) :
                      s[i] = x /\ \A j \in 1..(i - 1) : s[j] # x

\* Iterator::rposition: the last index holding x
RPosition(s, x) == CHOOSE i \in 1..Len(s) :
                       s[i] = x /\ \A j \in (i + 1)..Len(s) : s[j] # x

\* VecDeque::remove(i)
RemoveAt(s, i) == SubSeq(s, 1, i - 1) \o SubSeq(s, i + 1, Len(s))

\* BTreeMap::remove
MapRemove(m, k) == [p \in DOMAIN m \ {k} |-> m[p]]

\* BTreeMap::insert
MapInsert(m, k, v) == [p \in DOMAIN m \cup {k} |-> IF p = k THEN v ELSE m[p]]

EmptyMap == [p \in {} |-> <<>>]

(***************************************************************************)
(* apply_update: the per-level decomposition of an aggregate quantity.     *)
(***************************************************************************)
\* mutant: the first order equal to the change is removed
BidShrinkRemovesFirst(old_qty, change) ==
    IF \E i \in 1..Len(old_qty) : old_qty[i] = change
    THEN RemoveAt(old_qty, Position(old_qty, change))
    ELSE LET largest_order == MaxOfSeq(old_qty)
             largest_pos == Position(old_qty, largest_order)
         IN  Append(RemoveAt(old_qty, largest_pos), largest_order - change)

\* main.rs 683-691: the bid level old_qty shrinks by change
BidShrink(old_qty, change) ==
    IF \E i \in 1..Len(old_qty) : old_qty[i] = change
    THEN RemoveAt(old_qty, RPosition(old_qty, change))
    ELSE LET largest_order == MaxOfSeq(old_qty)
             largest_pos == Position(old_qty, largest_order)
         IN  Append(RemoveAt(old_qty, largest_pos), largest_order - change)

\* mutant: a grown level gets the new aggregate appended, not the difference
BidLevelAppendsAggregate(old_qty, qty) ==
    LET old_sum == SumSeq(old_qty) IN
    IF old_sum > qty THEN BidShrink(old_qty, old_sum - qty)
    ELSE IF old_sum < qty THEN Append(old_qty, qty)
    ELSE old_qty

\* mutant: the quantity a level grew by is put in front of the level
BidLevelPushesFront(old_qty, qty) ==
    LET old_sum == SumSeq(old_qty) IN
    IF old_sum > qty THEN BidShrink(old_qty, old_sum - qty)
    ELSE IF old_sum < qty THEN <<qty - old_sum>> \o old_qty
    ELSE old_qty

\* main.rs 680-700: the level old_qty of a bid row whose new aggregate is qty
BidLevel(old_qty, qty) ==
    LET old_sum == SumSeq(old_qty) IN
    IF old_sum > qty THEN BidShrink(old_qty, old_sum - qty)
    ELSE IF old_sum < qty THEN Append(old_qty, qty - old_sum)
    ELSE old_qty

\* mutant: a zero row is skipped instead of removing the price
ApplyBidRowSkipsZero(m, row) ==
    LET price == row.price
        qty == row.qty
    IN  IF qty > 0
        THEN IF price \in DOMAIN m
             THEN MapInsert(m, price, BidLevel(m[price], qty))
             ELSE MapInsert(m, price, <<qty>>)
        ELSE m

\* main.rs 671-705: one row of update.bids
ApplyBidRow(m, row) ==
    LET price == row.price
        qty == row.qty
    IN  IF qty = 0
        THEN MapRemove(m, price)
        ELSE IF qty > 0
        THEN IF price \in DOMAIN m
             THEN MapInsert(m, price, BidLevel(m[price], qty))
             ELSE MapInsert(m, price, <<qty>>)
        ELSE m

\* mutant: the largest order is reduced where it stands
AskShrinkInPlace(old_qty, change) ==
    IF \E i \in 1..Len(old_qty) : old_qty[i] = change
    THEN RemoveAt(old_qty, RPosition(old_qty, change))
    ELSE LET largest_order == MaxOfSeq(old_qty)
             largest_pos == Position(old_qty, largest_order)
         IN  [old_qty EXCEPT ![largest_pos] = largest_order - change]

\* main.rs 715-723: the ask level old_qty shrinks by change
AskShrink(old_qty, change) ==
    IF \E i \in 1..Len(old_qty) : old_qty[i] = change
    THEN RemoveAt(old_qty, RPosition(old_qty, change))
    ELSE LET largest_order == MaxOfSeq(old_qty)
             largest_pos == Position(old_qty, largest_order)
         IN  Append(RemoveAt(old_qty, largest_pos), largest_order - change)

\* mutant: a grown ask level gets the new aggregate appended
AskLevelAppendsAggregate(old_qty, qty) ==
    LET old_sum == SumSeq(old_qty) IN
    IF old_sum > qty THEN AskShrink(old_qty, old_sum - qty)
    ELSE IF old_sum < qty THEN Append(old_qty, qty)
    ELSE old_qty

\* main.rs 713-732: the level old_qty of an ask row whose new aggregate is qty
AskLevel(old_qty, qty) ==
    LET old_sum == SumSeq(old_qty) IN
    IF old_sum > qty THEN AskShrink(old_qty, old_sum - qty)
    ELSE IF old_sum < qty THEN Append(old_qty, qty - old_sum)
    ELSE old_qty

\* mutant: a zero row empties the level and keeps the price
ApplyAskRowKeepsPrice(m, row) ==
    LET price == row.price
        qty == row.qty
    IN  IF qty = 0
        THEN IF price \in DOMAIN m THEN MapInsert(m, price, <<>>) ELSE m
        ELSE IF price \in DOMAIN m
        THEN MapInsert(m, price, AskLevel(m[price], qty))
        ELSE MapInsert(m, price, <<qty>>)

\* main.rs 708-735: one row of update.asks
ApplyAskRow(m, row) ==
    LET price == row.price
        qty == row.qty
    IN  IF qty = 0
        THEN MapRemove(m, price)
        ELSE IF price \in DOMAIN m
        THEN MapInsert(m, price, AskLevel(m[price], qty))
        ELSE MapInsert(m, price, <<qty>>)

\* main.rs 670: for bid in &update.bids
RECURSIVE ApplyBids(_, _)
ApplyBids(m, rows) ==
    IF rows = <<>> THEN m ELSE ApplyBids(ApplyBidRow(m, Head(rows)), Tail(rows))

\* main.rs 707: for ask in &update.asks
RECURSIVE ApplyAsks(_, _)
ApplyAsks(m, rows) ==
    IF rows = <<>> THEN m ELSE ApplyAsks(ApplyAskRow(m, Head(rows)), Tail(rows))

(***************************************************************************)
(* The history variable `reported`: for each side and price, the aggregate *)
(* quantity of the last applied row naming that price (0 when no applied   *)
(* event of the current book named it, or the last one removed it).        *)
(***************************************************************************)
NoReport == [p \in Prices |-> 0]

RECURSIVE Report(_, _)
Report(rep, rows) ==
    IF rows = <<>> THEN rep
    ELSE Report([rep EXCEPT ![Head(rows).price] = Head(rows).qty], Tail(rows))

\* mutant: an update without rows empties both sides
ApplyUpdateClearsOnEmpty(st, update) ==
    IF update.bids = <<>> /\ update.asks = <<>>
    THEN [st EXCEPT !.bids = EmptyMap, !.asks = EmptyMap]
    ELSE [st EXCEPT !.bids = ApplyBids(st.bids, update.bids),
                    !.asks = ApplyAsks(st.asks, update.asks),
                    !.reported = [bids |-> Report(st.reported.bids, update.bids),
                                  asks |-> Report(st.reported.asks, update.asks)]]

\* main.rs 669-737: apply_update on the replica st
ApplyUpdate(st, update) ==
    [st EXCEPT !.bids = ApplyBids(st.bids, update.bids),
               !.asks = ApplyAsks(st.asks, update.asks),
               !.reported = [bids |-> Report(st.reported.bids, update.bids),
                             asks |-> Report(st.reported.asks, update.asks)]]

(***************************************************************************)
(* process_update: the sequencing rules.                                   *)
(***************************************************************************)
\* Sender::try_send on the bounded control channel: dropped when full
TrySend(ch, c) == IF Len(ch) < ControlCap THEN Append(ch, c) ELSE ch

Refetch == [cmd |-> "Refetch", arg |-> "none"]
ChangeSymbolCmd(s) == [cmd |-> "ChangeSymbol", arg |-> s]
ChangeExchangeCmd(e) == [cmd |-> "ChangeExchange", arg |-> e]

\* mutant: only a synced replica discards a stale update
StaleOnlyWhenSynced(st, update) ==
    st.is_synced /\ update.small_u < st.last_applied_u

\* mutant: no update is taken for stale
StaleNever(st, update) == FALSE

\* main.rs 207: update.small_u < self.last_applied_u
Stale(st, update) == update.small_u < st.last_applied_u

\* mutant: pu is never compared
PuMismatchNever(st, update) == FALSE

\* main.rs 212: update.pu >= 0 && (update.pu as u64) != self.last_applied_u
PuMismatch(st, update) == update.pu >= 0 /\ update.pu # st.last_applied_u

\* mutant: the first update after a snapshot must also match in pu
StraddlesChecksPu(st, update) ==
    /\ update.capital_u <= st.last_applied_u
    /\ st.last_applied_u <= update.small_u
    /\ update.pu = st.last_applied_u

\* mutant: the first id of the update is not compared
StraddlesLowerOnly(st, update) == st.last_applied_u <= update.small_u

\* main.rs 223: capital_u <= last_applied_u && last_applied_u <= small_u
Straddles(st, update) ==
    update.capital_u <= st.last_applied_u /\ st.last_applied_u <= update.small_u

\* mutant: a gap resets the replica inline
SignalGapResets(st) ==
    [st EXCEPT !.update_buffer = <<>>,
               !.control = TrySend(st.control, Refetch),
               !.bids = EmptyMap,
               !.asks = EmptyMap,
               !.last_applied_u = 0,
               !.is_synced = FALSE]

\* mutant: a gap also marks the replica as not synced
SignalGapUnsyncs(st) ==
    [st EXCEPT !.update_buffer = <<>>,
               !.control = TrySend(st.control, Refetch),
               !.is_synced = FALSE]

\* mutant: a gap clears the buffer and tells nobody
SignalGapKeepsQuiet(st) == [st EXCEPT !.update_buffer = <<>>]

\* main.rs 217-218, 232-233: clear the buffer and try-send Refetch
SignalGap(st) ==
    [st EXCEPT !.update_buffer = <<>>,
               !.control = TrySend(st.control, Refetch)]

\* mutant: the straddling update does not advance last_applied_u
ProcessUpdateKeepsId(st, update) ==
    IF Stale(st, update)
    THEN [st EXCEPT !.branch = "stale"]
    ELSE IF st.is_synced
    THEN IF PuMismatch(st, update)
         THEN [SignalGap(st) EXCEPT !.branch = "gap", !.gapped = TRUE]
         ELSE [ApplyUpdate(st, update) EXCEPT
                         !.last_applied_u = update.small_u,
                         !.branch = "applied"]
    ELSE IF Straddles(st, update)
    THEN [ApplyUpdate(st, update) EXCEPT
                         !.is_synced = TRUE,
                         !.branch = "straddle"]
    ELSE [SignalGap(st) EXCEPT !.branch = "initial_gap"]

\* main.rs 206-235; `branch` records which branch was taken
ProcessUpdate(st, update) ==
    IF Stale(st, update)
    THEN [st EXCEPT !.branch = "stale"]
    ELSE IF st.is_synced
    THEN IF PuMismatch(st, update)
         THEN [SignalGap(st) EXCEPT !.branch = "gap", !.gapped = TRUE]
         ELSE [ApplyUpdate(st, update) EXCEPT
                         !.last_applied_u = update.small_u,
                         !.branch = "applied"]
    ELSE IF Straddles(st, update)
    THEN [ApplyUpdate(st, update) EXCEPT
                         !.last_applied_u = update.small_u,
                         !.is_synced = TRUE,
                         !.branch = "straddle"]
    ELSE [SignalGap(st) EXCEPT !.branch = "initial_gap"]

\* mutant: the buffer is replayed from the back
RECURSIVE ReplayFromBack(_)
ReplayFromBack(st) ==
    IF st.update_buffer = <<>> THEN st
    ELSE LET n == Len(st.update_buffer) IN
         ReplayFromBack(ProcessUpdate(
             [st EXCEPT !.update_buffer = SubSeq(st.update_buffer, 1, n - 1)],
             st.update_buffer[n]))

\* main.rs 262-264: while let Some(update) = self.update_buffer.pop_front()
RECURSIVE Replay(_)
Replay(st) ==
    IF st.update_buffer = <<>> THEN st
    ELSE Replay(ProcessUpdate([st EXCEPT !.update_buffer = Tail(st.update_buffer)],
                              Head(st.update_buffer)))

\* main.rs 245-258: the rows of a snapshot side with qty > 0, each as [qty]
RECURSIVE InsertRows(_, _)
InsertRows(m, rows) ==
    IF rows = <<>> THEN m
    ELSE InsertRows(IF Head(rows).qty > 0
                    THEN MapInsert(m, Head(rows).price, <<Head(rows).qty>>)
                    ELSE m,
                    Tail(rows))

\* mutant: the snapshot's rows are inserted into the levels already held
ApplySnapshotKeepsLevels(st, snap) ==
    Replay([st EXCEPT !.bids = InsertRows(st.bids, snap.bids),
                      !.asks = InsertRows(st.asks, snap.asks),
                      !.last_applied_u = snap.last_update_id,
                      !.is_synced = FALSE,
                      !.gapped = FALSE,
                      !.reported = [bids |-> Report(NoReport, snap.bids),
                                    asks |-> Report(NoReport, snap.asks)],
                      !.branch = "snapshot"])

\* main.rs 243-264: the Snapshot branch of the drain loop
ApplySnapshot(st, snap) ==
    Replay([st EXCEPT !.bids = InsertRows(EmptyMap, snap.bids),
                      !.asks = InsertRows(EmptyMap, snap.asks),
                      !.last_applied_u = snap.last_update_id,
                      !.is_synced = FALSE,
                      !.gapped = FALSE,
                      !.reported = [bids |-> Report(NoReport, snap.bids),
                                    asks |-> Report(NoReport, snap.asks)],
                      !.branch = "snapshot"])

\* mutant: every update goes to process_update
HandleUpdateSkipsBuffer(st, update) == ProcessUpdate(st, update)

\* main.rs 266-272: the Update branch of the drain loop
HandleUpdate(st, update) ==
    IF st.last_applied_u = 0
    THEN [st EXCEPT !.update_buffer = Append(st.update_buffer, update),
                    !.branch = "buffered"]
    ELSE ProcessUpdate(st, update)

(***************************************************************************)
(* Messages on the event channel.  A DepthUpdate's event_time,             *)
(* transaction_time and symbol are never read by the consumer and are left *)
(* out.  The rows of one side of one message name each price at most once  *)
(* (the venues' wire format) and the positive rows of one message do not   *)
(* cross (each message is taken from one consistent venue book).           *)
(***************************************************************************)
NoMsg == [kind |-> "none"]

MinOf(S) == CHOOSE x \in S : \A y \in S : x <= y

\* the rows [price, qty] of f in ascending price order
RECURSIVE RowsOf(_, _)
RowsOf(f, ps) ==
    IF ps = {} THEN <<>>
    ELSE LET p == MinOf(ps) IN
         <<[price |-> p, qty |-> f[p]]>> \o RowsOf(f, ps \ {p})

RowLists(P, Q) == UNION {{RowsOf(f, S) : f \in [S -> Q]} : S \in SUBSET P}

Rows(rows) == {rows[i] : i \in 1..Len(rows)}

Uncrossed(b, a) ==
    \A rb \in Rows(b), ra \in Rows(a) :
        (rb.qty > 0 /\ ra.qty > 0) => rb.price < ra.price

Snapshots(I, B, A) ==
    {m \in {[kind |-> "snapshot", last_update_id |-> id, bids |-> b, asks |-> a] :
                id \in I, b \in B, a \in A} : Uncrossed(m.bids, m.asks)}

IdTriples(I) ==
    {t \in [capital_u : I, small_u : I, pu : {-1} \cup I] :
        t.capital_u <= t.small_u}

Updates(T, B, A) ==
    {m \in {[kind |-> "update", capital_u |-> t.capital_u, small_u |-> t.small_u,
             pu |-> t.pu, bids |-> b, asks |-> a] : t \in T, b \in B, a \in A} :
        Uncrossed(m.bids, m.asks)}

(***************************************************************************)
(* kmeans.rs: MiniBatchKMeans.  A point is the f64 of a quantity.  The f64 *)
(* values are modelled as exact rationals [n, d] in lowest terms with      *)
(* d > 0: the quantities, their differences and the quotients below are    *)
(* small, and the comparisons the code makes are those of the exact        *)
(* values.                                                                 *)
(***************************************************************************)
Abs(x) == IF x < 0 THEN -x ELSE x

RECURSIVE Gcd(_, _)
Gcd(a, b) == IF b = 0 THEN a ELSE Gcd(b, a % b)

Rat(n, d) == LET g == Gcd(Abs(n), d) IN [n |-> n \div g, d |-> d \div g]
Whole(x) == [n |-> x, d |-> 1]
Less(a, b) == a.n * b.d < b.n * a.d
Plus(a, b) == Rat(a.n * b.d + b.n * a.d, a.d * b.d)
Minus(a, b) == Rat(a.n * b.d - b.n * a.d, a.d * b.d)
Mul(a, b) == Rat(a.n * b.n, a.d * b.d)
\* a / b for b > 0
Div(a, b) == Rat(a.n * b.d, a.d * b.n)

MinI(a, b) == IF a < b THEN a ELSE b
MaxI(a, b) == IF a < b THEN b ELSE a

\* kmeans.rs 13-15
EuclideanDistance(a, b) ==
    LET diff == Minus(a, b) IN [n |-> Abs(diff.n), d |-> diff.d]

\* kmeans.rs 22-28: the smallest and the largest point
MinQ(points) == CHOOSE x \in {points[i] : i \in 1..Len(points)} :
                    \A j \in 1..Len(points) : ~Less(points[j], x)
MaxQ(points) == CHOOSE x \in {points[i] : i \in 1..Len(points)} :
                    \A j \in 1..Len(points) : ~Less(x, points[j])

\* kmeans.rs 17-37
Normalize(points) ==
    IF points = <<>> THEN points
    ELSE LET min_q == MinQ(points)
             range_q == Minus(MaxQ(points), min_q)
         IN  IF Less(Whole(0), range_q)
             THEN [i \in 1..Len(points) |-> Div(Minus(points[i], min_q), range_q)]
             ELSE points

\* mutant: fit takes every order of the book for a point
RECURSIVE PositiveQtysKeepsAll(_, _)
PositiveQtysKeepsAll(order_book, ps) ==
    IF ps = {} THEN <<>>
    ELSE LET price == CHOOSE x \in ps : \A y \in ps : x <= y IN
         order_book[price] \o PositiveQtysKeepsAll(order_book, ps \ {price})

\* kmeans.rs 62-70: the positive quantities of the book, by ascending price
\* and within a level from front to back
RECURSIVE PositiveQtys(_, _)
PositiveQtys(order_book, ps) ==
    IF ps = {} THEN <<>>
    ELSE LET price == CHOOSE x \in ps : \A y \in ps : x <= y IN
         SelectSeq(order_book[price], LAMBDA qty : qty > 0)
             \o PositiveQtys(order_book, ps \ {price})

\* kmeans.rs 150-168: the sorted points at evenly spaced indices
InitializeCentroids(num_clusters, points) ==
    LET sorted == SortSeq(points, LAMBDA a, b : Less(a, b))
        step == (Len(sorted) - 1) \div MaxI(MaxI(num_clusters, 1) - 1, 1)
    IN  [i \in 1..num_clusters |->
            sorted[MinI((i - 1) * step, Len(sorted) - 1) + 1]]

\* kmeans.rs 137-148: the index (from 0) of the first centroid at the least
\* distance from p
ClosestCentroid(centroids, p) ==
    IF centroids = <<>> THEN 0
    ELSE LET dist == [i \in 1..Len(centroids) |->
                         EuclideanDistance(p, centroids[i])]
         IN  (CHOOSE i \in 1..Len(centroids) :
                 /\ \A j \in 1..Len(centroids) : ~Less(dist[j], dist[i])
                 /\ \A j \in 1..(i - 1) : Less(dist[i], dist[j])) - 1

RECURSIVE SumPoints(_)
SumPoints(ps) == IF ps = <<>> THEN Whole(0) ELSE Plus(Head(ps), SumPoints(Tail(ps)))

\* kmeans.rs 91-107: one mini-batch, batch_indices being the indices drawn
MiniBatch(centroids, points, batch_indices) ==
    LET closest == [b \in 1..Len(batch_indices) |->
                       ClosestCentroid(centroids, points[batch_indices[b]])]
    IN  [i \in 1..Len(centroids) |->
            LET mine == SelectSeq([b \in 1..Len(batch_indices) |-> b],
                                  LAMBDA b : closest[b] = i - 1)
                counts == Len(mine)
                sums == SumPoints([b \in 1..counts |-> points[batch_indices[mine[b]]]])
            IN  IF counts > 0
                THEN Plus(Mul(Rat(counts - 1, counts), centroids[i]),
                          Mul(Rat(1, counts), Div(sums, Whole(counts))))
                ELSE centroids[i]]

\* kmeans.rs 85-108: for _ in 0..self.max_iter
RECURSIVE MiniBatches(_, _, _)
MiniBatches(centroids, points, batches) ==
    IF batches = <<>> THEN centroids
    ELSE MiniBatches(MiniBatch(centroids, points, Head(batches)), points,
                     Tail(batches))

\* mutant: the labels are not remapped
LabelMapKeepsLabel(centroids, old_label) == old_label

\* kmeans.rs 117-128: label_map[old_label], the rank of centroid old_label
\* under the stable sort by centroid value
LabelMap(centroids, old_label) ==
    Cardinality({j \in 1..Len(centroids) :
        \/ Less(centroids[j], centroids[old_label + 1])
        \/ /\ ~Less(centroids[old_label + 1], centroids[j])
           /\ j < old_label + 1})

\* kmeans.rs 110-134: assign the labels and stabilize them;
\* label_map.get(label).unwrap_or(&0)
Labels(centroids, points) ==
    [i \in 1..Len(points) |->
        LET label == ClosestCentroid(centroids, points[i]) IN
        IF label < Len(centroids) THEN LabelMap(centroids, label) ELSE 0]

\* mutant: fit drops the centroids and labels every point 0
FitDropsCentroids(km, order_book, batches) ==
    [kmeans |-> [km EXCEPT !.centroids = <<>>],
     labels |-> [i \in 1..Len(PositiveQtys(order_book, DOMAIN order_book)) |-> 0]]

\* kmeans.rs 58-135: fit on order_book, batches being the indices the
\* generator draws in each iteration; the result holds the instance after
\* the call and the labels returned
Fit(km, order_book, batches) ==
    LET qtys == PositiveQtys(order_book, DOMAIN order_book) IN
    IF qtys = <<>>
    THEN [kmeans |-> km, labels |-> <<>>]
    ELSE CHOOSE r \in
           {[kmeans |-> [km EXCEPT !.centroids = centroids],
             labels |-> Labels(centroids, points)] :
               <<points, centroids>> \in
                 {<<pts, MiniBatches(
                          IF km.centroids = <<>>
                             \/ Len(km.centroids) # km.num_clusters
                          THEN InitializeCentroids(km.num_clusters, pts)
                          ELSE km.centroids,
                          pts, batches)>> :
                     pts \in {Normalize([i \in 1..Len(qtys) |-> Whole(qtys[i])])}}} :
           TRUE

\* kmeans.rs 211-216: the positive quantities of one level, each with the
\* next label; idx labels have been consumed before the level
RECURSIVE ClusterLevel(_, _, _)
ClusterLevel(deq, labels, idx) ==
    IF deq = <<>> THEN <<>>
    ELSE IF Head(deq) > 0
    THEN <<[qty |-> Head(deq), label |-> labels[idx + 1]]>>
             \o ClusterLevel(Tail(deq), labels, idx + 1)
    ELSE ClusterLevel(Tail(deq), labels, idx)

\* kmeans.rs 209-217: the levels ps by ascending price
RECURSIVE ClusterLevels(_, _, _, _)
ClusterLevels(order_book, ps, labels, idx) ==
    IF ps = {} THEN [p \in {} |-> <<>>]
    ELSE LET price == CHOOSE x \in ps : \A y \in ps : x <= y
             entry == ClusterLevel(order_book[price], labels, idx)
         IN  MapInsert(ClusterLevels(order_book, ps \ {price}, labels,
                                     idx + Len(entry)),
                       price, entry)

\* mutant: every level takes its labels from the start of the list
BuildClusteredOrdersRestarts(order_book, labels) ==
    [price \in DOMAIN order_book |-> ClusterLevel(order_book[price], labels, 0)]

\* kmeans.rs 200-218: build_clustered_orders
BuildClusteredOrders(order_book, labels) ==
    ClusterLevels(order_book, DOMAIN order_book, labels, 0)

\* kmeans.rs 87-89: the draws of max_iter mini-batches over n points
Batches(km, n) ==
    [1..km.max_iter -> [1..MinI(km.batch_size, n) -> 1..n]]

\* kmeans.rs 48-55
New(num_clusters, batch_size, max_iter) ==
    [num_clusters |-> num_clusters, batch_size |-> batch_size,
     max_iter |-> max_iter, centroids |-> <<>>]

(***************************************************************************)
(* The consumer: MyApp::update.                                            *)
(***************************************************************************)
Replica ==
    [bids |-> bids, asks |-> asks, last_applied_u |-> last_applied_u,
     is_synced |-> is_synced, update_buffer |-> update_buffer,
     control |-> control, reported |-> reported, gapped |-> gapped,
     branch |-> outcome]

Install(st) ==
    /\ bids' = st.bids
    /\ asks' = st.asks
    /\ last_applied_u' = st.last_applied_u
    /\ is_synced' = st.is_synced
    /\ update_buffer' = st.update_buffer
    /\ control' = st.control
    /\ reported' = st.reported
    /\ gapped' = st.gapped

RECURSIVE SumLens(_, _)
SumLens(m, ps) ==
    IF ps = {} THEN 0
    ELSE LET p == MinOf(ps) IN Len(m[p]) + SumLens(m, ps \ {p})

\* the number of inferred orders the replica st holds
Orders(st) == SumLens(st.bids, DOMAIN st.bids) + SumLens(st.asks, DOMAIN st.asks)

\* the update ids of the buffered diffs, in buffer order
IdsOf(q) ==
    [i \in 1..Len(q) |-> [capital_u |-> q[i].capital_u,
                          small_u |-> q[i].small_u, pu |-> q[i].pu]]

NoBook == [bids |-> EmptyMap, asks |-> EmptyMap, buffered |-> <<>>]

Sessions == 1..MaxSessions

NoReader == [state |-> "none", venue |-> "none", symbol |-> "none",
             first_message |-> TRUE, time |-> 0, emitted |-> 0,
             pinged |-> <<>>, ponged |-> <<>>]

\* main.rs 104-109: the worker thread enters fetch_and_stream_loop
InitPipeline ==
    /\ orch = [pc |-> "connect", symbol |-> "dogeusdt",
               exchange_type |-> "Binance", session |-> 0, fetched |-> {}]
    /\ reader = [s \in Sessions |-> NoReader]
    /\ chan = [s \in Sessions |-> <<>>]
    /\ forwarder = [s \in Sessions |-> "none"]
    /\ events = <<>>

\* no clusterer yet: the k-means view is off
NoKMeans == New(0, 0, 0)
NoFit == [fits |-> 0, order_book |-> EmptyMap, labels |-> <<>>,
          clustered_orders |-> EmptyMap]

Init ==
    /\ InitPipeline
    /\ kmeans = NoKMeans
    /\ fitted = NoFit
    /\ bids = EmptyMap
    /\ asks = EmptyMap
    /\ last_applied_u = 0
    /\ is_synced = FALSE
    /\ update_buffer = <<>>
    /\ control = <<>>
    /\ symbol = "dogeusdt"
    /\ current_exchange = "Binance"
    /\ msg = NoMsg
    /\ outcome = "none"
    /\ reported = [bids |-> NoReport, asks |-> NoReport]
    /\ before = NoBook
    /\ gapped = FALSE

\* main.rs 240-265: try_recv yields a snapshot
RecvSnapshot(snap) ==
    /\ msg = NoMsg
    /\ LET st == ApplySnapshot(Replica, snap) IN
        /\ Orders(st) <= MaxOrders
        /\ Install(st)
    /\ msg' = snap
    /\ outcome' = "snapshot"
    /\ before' = [bids |-> bids, asks |-> asks, buffered |-> IdsOf(update_buffer)]
    /\ UNCHANGED <<symbol, current_exchange>>

\* main.rs 240, 266-272: try_recv yields an update
RecvUpdate(update) ==
    /\ msg = NoMsg
    /\ last_applied_u = 0 => Len(update_buffer) < MaxBuf
    /\ LET st == HandleUpdate(Replica, update) IN
        /\ Orders(st) <= MaxOrders
        /\ Install(st)
        /\ outcome' = st.branch
    /\ msg' = update
    /\ before' = [bids |-> bids, asks |-> asks, buffered |-> IdsOf(update_buffer)]
    /\ UNCHANGED <<symbol, current_exchange>>

\* main.rs 240, 266-272: the iteration ends and try_recv yields the update
\* of the iteration once more (the venue or the transport repeated it)
RecvUpdateAgain ==
    /\ msg.kind = "update"
    /\ last_applied_u = 0 => Len(update_buffer) < MaxBuf
    /\ LET st == HandleUpdate(Replica, msg) IN
        /\ Orders(st) <= MaxOrders
        /\ Install(st)
        /\ outcome' = st.branch
    /\ msg' = msg
    /\ before' = [bids |-> bids, asks |-> asks, buffered |-> IdsOf(update_buffer),
                  first |-> outcome]
    /\ UNCHANGED <<symbol, current_exchange>>

\* main.rs 240: the iteration ends and the loop goes back to try_recv
NextIteration ==
    /\ msg # NoMsg
    /\ msg' = NoMsg
    /\ outcome' = "none"
    /\ before' = NoBook
    /\ UNCHANGED <<bids, asks, last_applied_u, is_synced, update_buffer,
                   control, symbol, current_exchange, reported, gapped>>

\* main.rs 312-315, 335-338: the reset of the replica on a user command
ResetReplica ==
    /\ bids' = EmptyMap
    /\ asks' = EmptyMap
    /\ last_applied_u' = 0
    /\ is_synced' = FALSE
    /\ reported' = [bids |-> NoReport, asks |-> NoReport]
    /\ gapped' = FALSE

\* main.rs 325-339: the Change Symbol button, edited_symbol being s
ChangeSymbol(s) ==
    /\ msg = NoMsg
    /\ s # symbol
    /\ control' = TrySend(control, ChangeSymbolCmd(s))
    /\ symbol' = s
    /\ ResetReplica
    /\ UNCHANGED <<update_buffer, current_exchange, msg, outcome, before>>

\* main.rs 306: self.symbol.contains("usdt")
ContainsUsdt(s) == s = "dogeusdt"

\* main.rs 292-316: an entry of the exchange combo box is clicked
ChangeExchange(e) ==
    /\ msg = NoMsg
    /\ e # current_exchange
    /\ current_exchange' = e
    /\ symbol' = IF e = "Hyperliquid" /\ ContainsUsdt(symbol) THEN "SOL" ELSE symbol
    /\ control' = TrySend(control, ChangeExchangeCmd(e))
    /\ ResetReplica
    /\ UNCHANGED <<update_buffer, msg, outcome, before>>

\* main.rs 179: the orchestrator takes a command off the control channel
ControlRecv ==
    /\ msg = NoMsg
    /\ control # <<>>
    /\ control' = Tail(control)
    /\ UNCHANGED <<bids, asks, last_applied_u, is_synced, update_buffer,
                   symbol, current_exchange, msg, outcome, reported, before,
                   gapped>>

(***************************************************************************)
(* Spec: every update-id pattern, on rows that touch one bid and one ask   *)
(* level.                                                                  *)
(***************************************************************************)
Ids == 1..MaxId
SeqBids == RowLists({1}, {1})
SeqAsks == RowLists({2}, {1})
SeqSnapshots == Snapshots(Ids, SeqBids, SeqAsks)
SeqUpdates == Updates(IdTriples(Ids), SeqBids, SeqAsks)

\* Spec and SpecBook deliver a diff before the snapshot only to an empty buffer
BufferAtMostOne == last_applied_u = 0 => update_buffer = <<>>

Next ==
    \/ \E snap \in SeqSnapshots : RecvSnapshot(snap) /\ UNCHANGED rest
    \/ \E update \in SeqUpdates :
          BufferAtMostOne /\ RecvUpdate(update) /\ UNCHANGED rest
    \/ NextIteration /\ UNCHANGED rest
    \/ \E s \in Symbols : ChangeSymbol(s) /\ UNCHANGED rest
    \/ \E e \in ExchangeTypes : ChangeExchange(e) /\ UNCHANGED rest
    \/ ControlRecv /\ UNCHANGED rest

Spec == Init /\ [][Next]_vars

(***************************************************************************)
(* SpecBook: rows over every price and quantity (a side of a message sets  *)
(* one level, or removes any set of levels), with update ids that let      *)
(* every diff through.                                                     *)
(***************************************************************************)
Qtys == 0..MaxQty
BookRows == {r \in RowLists(Prices, Qtys) :
                Len(r) <= 1 \/ \A i \in 1..Len(r) : r[i].qty = 0}
BookSnapshots == Snapshots({1}, BookRows, BookRows)
BookUpdates == Updates({[capital_u |-> 1, small_u |-> 1, pu |-> 1]}, BookRows, BookRows)

NextBook ==
    \/ \E snap \in BookSnapshots : RecvSnapshot(snap) /\ UNCHANGED rest
    \/ \E update \in BookUpdates :
          BufferAtMostOne /\ RecvUpdate(update) /\ UNCHANGED rest
    \/ NextIteration /\ UNCHANGED rest

SpecBook == Init /\ [][NextBook]_vars

(***************************************************************************)
(* SpecLevel: one bid level and one ask level under aggregates up to       *)
(* MaxQty + 1, which lets a level hold the same quantity on both sides of  *)
(* another order.                                                          *)
(***************************************************************************)
LevelQtys == 0..(MaxQty + 1)
LevelBids == RowLists({1}, LevelQtys)
LevelAsks == RowLists({2}, LevelQtys)
LevelSnapshots == Snapshots({1}, LevelBids, LevelAsks)
LevelUpdates ==
    Updates({[capital_u |-> 1, small_u |-> 1, pu |-> 1]}, LevelBids, LevelAsks)

NextLevel ==
    \/ \E snap \in LevelSnapshots : RecvSnapshot(snap) /\ UNCHANGED rest
    \/ \E update \in LevelUpdates :
          BufferAtMostOne /\ RecvUpdate(update) /\ UNCHANGED rest
    \/ NextIteration /\ UNCHANGED rest

SpecLevel == Init /\ [][NextLevel]_vars

(***************************************************************************)
(* SpecGrow: every update-id pattern on rows that set one bid level to any *)
(* positive aggregate, so that a level grows under a diff that passes and  *)
(* stays under one that does not.                                          *)
(***************************************************************************)
GrowBids == RowLists({1}, Qtys \ {0})
GrowSnapshots == Snapshots(Ids, GrowBids, SeqAsks)
GrowUpdates == Updates(IdTriples(Ids), GrowBids, {<<>>})

NextGrow ==
    \/ \E snap \in GrowSnapshots : RecvSnapshot(snap) /\ UNCHANGED rest
    \/ \E update \in GrowUpdates :
          BufferAtMostOne /\ RecvUpdate(update) /\ UNCHANGED rest
    \/ NextIteration /\ UNCHANGED rest

SpecGrow == Init /\ [][NextGrow]_vars

(***************************************************************************)
(* SpecRepeat: every update-id pattern on rows that set or remove one ask  *)
(* level, each diff delivered once or several times in a row.              *)
(***************************************************************************)
RepeatAsks == RowLists({2}, Qtys)
RepeatSnapshots == Snapshots(Ids, SeqBids, RepeatAsks)
RepeatUpdates == Updates(IdTriples(Ids), SeqBids, RepeatAsks)

NextRepeat ==
    \/ \E snap \in RepeatSnapshots : RecvSnapshot(snap) /\ UNCHANGED rest
    \/ \E update \in RepeatUpdates :
          BufferAtMostOne /\ RecvUpdate(update) /\ UNCHANGED rest
    \/ RecvUpdateAgain /\ UNCHANGED rest
    \/ NextIteration /\ UNCHANGED rest

SpecRepeat == Init /\ [][NextRepeat]_vars

(***************************************************************************)
(* SpecSides: one bid level and one ask level under rows of any sign: the  *)
(* rows are parsed Decimals, which the adapters pass on as they come.      *)
(***************************************************************************)
SideQtys == (0 - 1)..2
SideBids == RowLists({1}, SideQtys)
SideAsks == RowLists({2}, SideQtys)
SideSnapshots == Snapshots({1}, SideBids, SideAsks)
SideUpdates ==
    Updates({[capital_u |-> 1, small_u |-> 1, pu |-> 1]}, SideBids, SideAsks)

NextSides ==
    \/ \E snap \in SideSnapshots : RecvSnapshot(snap) /\ UNCHANGED rest
    \/ \E update \in SideUpdates :
          BufferAtMostOne /\ RecvUpdate(update) /\ UNCHANGED rest
    \/ NextIteration /\ UNCHANGED rest

SpecSides == Init /\ [][NextSides]_vars

(***************************************************************************)
(* SpecBuffer: buffers of up to MaxBuf early diffs, which a reset of the   *)
(* replica leaves in place.  Each diff carries the pu of a venue-A stream  *)
(* (the id before its first id) and at most one bid row.                   *)
(***************************************************************************)
BufTriples ==
    {[capital_u |-> t[1], small_u |-> t[2], pu |-> t[1] - 1] :
        t \in {x \in Ids \X Ids : x[1] <= x[2]}}
BufSnapshots == Snapshots(Ids, {<<>>}, SeqAsks)
BufUpdates == Updates(BufTriples, SeqBids, {<<>>})

NextBuffer ==
    \/ \E snap \in BufSnapshots : RecvSnapshot(snap) /\ UNCHANGED rest
    \/ \E update \in BufUpdates : RecvUpdate(update) /\ UNCHANGED rest
    \/ NextIteration /\ UNCHANGED rest
    \/ \E s \in Symbols : ChangeSymbol(s) /\ UNCHANGED rest
    \/ ControlRecv /\ UNCHANGED rest

SpecBuffer == Init /\ [][NextBuffer]_vars

(***************************************************************************)
(* The ingestion worker: fetch_and_stream_loop, the socket reader an        *)
(* adapter's connect spawns, and the forwarder ws_handle.  A message        *)
(* carries two history fields: the session that produced it and its number  *)
(* in the session (0 for the snapshot get_snapshot fetched).  A task is     *)
(* cancelled where it awaits: the forwarder at rx.recv().                   *)
(***************************************************************************)
consumer == <<bids, asks, last_applied_u, is_synced, update_buffer, control,
              symbol, current_exchange, msg, outcome, reported, before,
              gapped, clustering>>

Tag(m, s, n) == m @@ [session |-> s, seq |-> n]

\* venue B: every frame is a full book stamped with the venue's time
Times == 1..MaxTime
HlBooks == {[time |-> t, bids |-> <<[price |-> 1, qty |-> 1]>>,
             asks |-> <<[price |-> 2, qty |-> 1]>>] : t \in Times}

\* hyperliquid.rs 161-181: the first book of a socket becomes a snapshot
ConvertWsBookToSnapshot(book) ==
    [kind |-> "snapshot", last_update_id |-> book.time,
     bids |-> book.bids, asks |-> book.asks]

\* mutant: a later book becomes a diff whose pu is its own time
ConvertWsBookToUpdateKeepsTime(book) ==
    [kind |-> "update", capital_u |-> book.time, small_u |-> book.time,
     pu |-> book.time, bids |-> book.bids, asks |-> book.asks]

\* hyperliquid.rs 186-211: every later book becomes a diff
ConvertWsBookToUpdate(book) ==
    [kind |-> "update", capital_u |-> book.time, small_u |-> book.time,
     pu |-> book.time - 1, bids |-> book.bids, asks |-> book.asks]

\* hyperliquid.rs 233-272: the REST book, stamped with the local clock
HlRestSnapshots(T) ==
    {[kind |-> "snapshot", last_update_id |-> now,
      bids |-> book.bids, asks |-> book.asks] : now \in T, book \in HlBooks}

\* exchange.get_snapshot(..) returning Ok, A and B being the snapshots the
\* two venues can serve
GetSnapshot(exchange_type, A, B) == IF exchange_type = "Binance" THEN A ELSE B

\* mutant: the event channel hands out the newest message first
EnqueueAtFront(q, m) == <<m>> \o q

\* the event channel: std_mpsc::channel(), send never blocks
Enqueue(q, m) == Append(q, m)

\* main.rs 144-148: connect spawns the socket reader and returns Ok(rx)
OrchConnect ==
    /\ msg = NoMsg
    /\ orch.pc = "connect"
    /\ orch.session < MaxSessions
    /\ orch' = [orch EXCEPT !.pc = "snapshot", !.session = @ + 1]
    /\ reader' = [reader EXCEPT ![orch.session + 1] =
                      [NoReader EXCEPT !.state = "connecting",
                                       !.venue = orch.exchange_type,
                                       !.symbol = orch.symbol]]
    /\ UNCHANGED <<chan, forwarder, events, consumer>>

\* main.rs 153-177: the snapshot is fetched and sent (or the fetch fails and
\* is logged), then the forwarder is spawned
OrchSnapshot(A, B) ==
    /\ msg = NoMsg
    /\ orch.pc = "snapshot"
    /\ \/ \E snap \in GetSnapshot(orch.exchange_type, A, B) :
             /\ Len(events) < MaxEvents
             /\ events' = Enqueue(events, Tag(snap, orch.session, 0))
             /\ orch' = [orch EXCEPT !.pc = "await",
                                     !.fetched = @ \cup {orch.session}]
       \/ /\ events' = events
          /\ orch' = [orch EXCEPT !.pc = "await"]
    /\ forwarder' = [forwarder EXCEPT ![orch.session] = "running"]
    /\ UNCHANGED <<reader, chan, consumer>>

\* mutant: the command is taken but the forwarder is left running
OrchControlKeepsForwarder ==
    /\ orch.pc = "await"
    /\ ControlRecv
    /\ LET ctrl == Head(control) IN
           orch' = [orch EXCEPT
                  !.pc = "connect",
                  !.symbol = IF ctrl.cmd = "ChangeSymbol" THEN ctrl.arg ELSE @,
                  !.exchange_type =
                      IF ctrl.cmd = "ChangeExchange" THEN ctrl.arg ELSE @]
    /\ UNCHANGED <<reader, chan, forwarder, events, clustering>>

\* main.rs 179-193: a command arrives; ws_handle.abort() drops the forwarder
\* and with it rx; symbol or exchange_type is updated; the loop starts over
OrchControl ==
    /\ orch.pc = "await"
    /\ ControlRecv
    /\ LET ctrl == Head(control)
           aborted == forwarder[orch.session] = "running"
       IN  /\ forwarder' = [forwarder EXCEPT ![orch.session] =
                               IF aborted THEN "aborted" ELSE @]
           /\ chan' = [chan EXCEPT ![orch.session] = IF aborted THEN <<>> ELSE @]
           /\ orch' = [orch EXCEPT
                  !.pc = "connect",
                  !.symbol = IF ctrl.cmd = "ChangeSymbol" THEN ctrl.arg ELSE @,
                  !.exchange_type =
                      IF ctrl.cmd = "ChangeExchange" THEN ctrl.arg ELSE @]
    /\ UNCHANGED <<reader, events, clustering>>

\* binance.rs 72, hyperliquid.rs 138: connect_async succeeds
ReaderOpen(s) ==
    /\ msg = NoMsg
    /\ reader[s].state = "connecting"
    /\ reader' = [reader EXCEPT ![s].state = "open"]
    /\ UNCHANGED <<orch, chan, forwarder, events, consumer>>

\* binance.rs 72, hyperliquid.rs 138: connect_async fails, the task ends and
\* drops tx
ReaderFail(s) ==
    /\ msg = NoMsg
    /\ reader[s].state = "connecting"
    /\ reader' = [reader EXCEPT ![s].state = "closed"]
    /\ UNCHANGED <<orch, chan, forwarder, events, consumer>>

\* binance.rs 95-99, hyperliquid.rs 219-223: a Close frame, an error or the
\* end of the stream leaves the read loop; the task ends and drops tx
ReaderClose(s) ==
    /\ msg = NoMsg
    /\ reader[s].state = "open"
    /\ reader' = [reader EXCEPT ![s].state = "closed"]
    /\ UNCHANGED <<orch, chan, forwarder, events, consumer>>

\* tx.send(m).await on the adapter's channel: an error (rx dropped) is
\* ignored, a full channel makes the reader wait
Send(s, m) ==
    IF forwarder[s] = "aborted"
    THEN chan' = chan
    ELSE /\ Len(chan[s]) < AdapterCap
         /\ chan' = [chan EXCEPT ![s] = Append(@, m)]

\* binance.rs 77-90: a text frame of venue A becomes an Update
ReaderEmitA(s, update) ==
    /\ msg = NoMsg
    /\ reader[s].state = "open"
    /\ reader[s].venue = "Binance"
    /\ reader[s].emitted < MaxEmit
    /\ Send(s, Tag(update, s, reader[s].emitted + 1))
    /\ reader' = [reader EXCEPT ![s].emitted = @ + 1]
    /\ UNCHANGED <<orch, forwarder, events, consumer>>

\* hyperliquid.rs 157-214: a book of venue B, later than the one before,
\* becomes the Snapshot of the socket or an Update
ReaderEmitB(s, book) ==
    /\ msg = NoMsg
    /\ reader[s].state = "open"
    /\ reader[s].venue = "Hyperliquid"
    /\ reader[s].emitted < MaxEmit
    /\ book.time > reader[s].time
    /\ Send(s, Tag(IF reader[s].first_message
                   THEN ConvertWsBookToSnapshot(book)
                   ELSE ConvertWsBookToUpdate(book),
                   s, reader[s].emitted + 1))
    /\ reader' = [reader EXCEPT ![s].emitted = @ + 1,
                                ![s].first_message = FALSE,
                                ![s].time = book.time]
    /\ UNCHANGED <<orch, forwarder, events, consumer>>

\* binance.rs 92-94 (an empty arm; the write half of the socket was dropped
\* at 73), hyperliquid.rs 216-218 (write.send(Pong(payload))): a ping frame
ReaderPing(s, payload) ==
    /\ msg = NoMsg
    /\ reader[s].state = "open"
    /\ Len(reader[s].pinged) < MaxPings
    /\ reader' = [reader EXCEPT
           ![s].pinged = Append(@, payload),
           ![s].ponged = IF reader[s].venue = "Hyperliquid"
                         THEN Append(@, payload) ELSE @]
    /\ UNCHANGED <<orch, chan, forwarder, events, consumer>>

\* main.rs 165-175: the forwarder moves one message to the event channel
Forward(s) ==
    /\ msg = NoMsg
    /\ forwarder[s] = "running"
    /\ chan[s] # <<>>
    /\ Len(events) < MaxEvents
    /\ events' = Enqueue(events, Head(chan[s]))
    /\ chan' = [chan EXCEPT ![s] = Tail(@)]
    /\ UNCHANGED <<orch, reader, forwarder, consumer>>

\* mutant: the forwarder never sees the channel close
ForwarderEndNever(s) == FALSE /\ UNCHANGED vars

\* main.rs 165: rx.recv() yields None (channel empty, tx dropped): the
\* forwarder's loop and task end
ForwarderEnd(s) ==
    /\ msg = NoMsg
    /\ forwarder[s] = "running"
    /\ chan[s] = <<>>
    /\ reader[s].state = "closed"
    /\ forwarder' = [forwarder EXCEPT ![s] = "finished"]
    /\ UNCHANGED <<orch, reader, chan, events, consumer>>

\* main.rs 240: try_recv takes the message at the head of the event channel
Deliver ==
    /\ events # <<>>
    /\ \/ Head(events).kind = "snapshot" /\ RecvSnapshot(Head(events))
       \/ Head(events).kind = "update" /\ RecvUpdate(Head(events))
    /\ events' = Tail(events)
    /\ UNCHANGED <<orch, reader, chan, forwarder, clustering>>

\* SpecSession: the whole worker with both venues and every command; venue A
\* serves one snapshot and one diff, the local clock reads 1, and the user
\* moves away from the initial symbol and venue, never back
SessSnapshotsA == Snapshots({1}, {<<>>}, {<<>>})
SessSnapshotsB == HlRestSnapshots({1})
SessUpdatesA == Updates({[capital_u |-> 1, small_u |-> 2, pu |-> 0]},
                        {<<[price |-> 1, qty |-> 1]>>}, {<<>>})

NextSession ==
    \/ OrchConnect
    \/ OrchSnapshot(SessSnapshotsA, SessSnapshotsB)
    \/ OrchControl
    \/ \E s \in Sessions : ReaderOpen(s)
    \/ \E s \in Sessions : ReaderFail(s)
    \/ \E s \in Sessions : ReaderClose(s)
    \/ \E s \in Sessions : \E update \in SessUpdatesA : ReaderEmitA(s, update)
    \/ \E s \in Sessions : \E book \in HlBooks : ReaderEmitB(s, book)
    \/ \E s \in Sessions : Forward(s)
    \/ \E s \in Sessions : ForwarderEnd(s)
    \/ Deliver
    \/ NextIteration /\ UNCHANGED rest
    \/ \E s \in Symbols \ {"dogeusdt"} : ChangeSymbol(s) /\ UNCHANGED rest
    \/ \E e \in ExchangeTypes \ {"Binance"} :
          ChangeExchange(e) /\ UNCHANGED rest

SpecSession == Init /\ [][NextSession]_vars

\* the runtime runs every task that can make a step, and every message sent
\* requests a repaint, which runs the consumer's drain loop
Fairness ==
    /\ WF_vars(OrchConnect)
    /\ WF_vars(OrchSnapshot(SessSnapshotsA, SessSnapshotsB))
    /\ WF_vars(OrchControl)
    /\ \A s \in Sessions : WF_vars(Forward(s)) /\ WF_vars(ForwarderEnd(s))
    /\ WF_vars(Deliver)
    /\ WF_vars(NextIteration /\ UNCHANGED rest)

\* SpecWorker: the worker on venue A left to itself; the only commands are
\* the Refetch of the consumer
NextWorker ==
    \/ OrchConnect
    \/ OrchSnapshot(SessSnapshotsA, SessSnapshotsB)
    \/ OrchControl
    \/ \E s \in Sessions : ReaderOpen(s)
    \/ \E s \in Sessions : ReaderFail(s)
    \/ \E s \in Sessions : ReaderClose(s)
    \/ \E s \in Sessions : \E update \in SessUpdatesA : ReaderEmitA(s, update)
    \/ \E s \in Sessions : Forward(s)
    \/ \E s \in Sessions : ForwarderEnd(s)
    \/ Deliver
    \/ NextIteration /\ UNCHANGED rest

SpecWorker == Init /\ [][NextWorker]_vars /\ Fairness

\* SpecRecover: the worker on venue A with its sockets staying open, under
\* the consumer's Refetch and a change of symbol by the user, which can
\* fill the control slot before a gap is found
NextRecover ==
    \/ OrchConnect
    \/ OrchSnapshot(SessSnapshotsA, SessSnapshotsB)
    \/ OrchControl
    \/ \E s \in Sessions : ReaderOpen(s)
    \/ \E s \in Sessions : \E update \in SessUpdatesA : ReaderEmitA(s, update)
    \/ \E s \in Sessions : Forward(s)
    \/ Deliver
    \/ NextIteration /\ UNCHANGED rest
    \/ \E s \in Symbols \ {"dogeusdt"} : ChangeSymbol(s) /\ UNCHANGED rest

\* the runtime runs the orchestrator whenever it can make a step, and the
\* drain loop finishes its iteration
RecoverFairness ==
    /\ WF_vars(OrchConnect)
    /\ WF_vars(OrchSnapshot(SessSnapshotsA, SessSnapshotsB))
    /\ WF_vars(OrchControl)
    /\ WF_vars(NextIteration /\ UNCHANGED rest)

SpecRecover == Init /\ [][NextRecover]_vars /\ RecoverFairness

\* SpecCommands: the orchestrator under every command (the user's and the
\* consumer's Refetch), with the traffic of venue A; the orchestrator's
\* awaits on connect and get_snapshot return
NextCommands ==
    \/ OrchConnect
    \/ OrchSnapshot(SessSnapshotsA, SessSnapshotsB)
    \/ OrchControl
    \/ \E s \in Sessions : ReaderOpen(s)
    \/ \E s \in Sessions : \E update \in SessUpdatesA : ReaderEmitA(s, update)
    \/ \E s \in Sessions : Forward(s)
    \/ Deliver
    \/ NextIteration /\ UNCHANGED rest
    \/ \E s \in Symbols \ {"dogeusdt"} : ChangeSymbol(s) /\ UNCHANGED rest
    \/ \E e \in ExchangeTypes \ {"Binance"} :
          ChangeExchange(e) /\ UNCHANGED rest

OrchFairness ==
    /\ WF_vars(OrchConnect)
    /\ WF_vars(OrchSnapshot(SessSnapshotsA, SessSnapshotsB))
    /\ WF_vars(NextIteration /\ UNCHANGED rest)

SpecCommands == Init /\ [][NextCommands]_vars /\ OrchFairness

(***************************************************************************)
(* SpecFullBook: the consumer under the messages of a venue-B socket.      *)
(* Every frame is the venue's full book: the levels that hold a positive   *)
(* size, bids and asks uncrossed; a level that has left the book is not    *)
(* named.  The socket's first book arrives as a Snapshot, later books as   *)
(* Updates; the venue's time does not go back.                             *)
(***************************************************************************)
FullSides == RowLists(Prices, {1, 2})
FullBooks ==
    {b \in [time : Times, bids : FullSides, asks : FullSides] :
        Uncrossed(b.bids, b.asks)}

NextFullBook ==
    \/ \E book \in FullBooks :
          /\ last_applied_u = 0
          /\ RecvSnapshot(ConvertWsBookToSnapshot(book))
          /\ UNCHANGED rest
    \/ \E book \in FullBooks :
          /\ last_applied_u # 0
          /\ book.time >= last_applied_u
          /\ RecvUpdate(ConvertWsBookToUpdate(book))
          /\ UNCHANGED rest
    \/ NextIteration /\ UNCHANGED rest

SpecFullBook == Init /\ [][NextFullBook]_vars

(***************************************************************************)
(* SpecPing: the sockets of both venues under ping frames; the user moves  *)
(* to venue B and the orchestrator follows.                                *)
(***************************************************************************)
Payloads == {1, 2}

NextPing ==
    \/ OrchConnect
    \/ OrchSnapshot(SessSnapshotsA, SessSnapshotsB)
    \/ OrchControl
    \/ \E s \in Sessions : ReaderOpen(s)
    \/ \E s \in Sessions : ReaderClose(s)
    \/ \E s \in Sessions : \E payload \in Payloads : ReaderPing(s, payload)
    \/ \E e \in ExchangeTypes \ {"Binance"} :
          ChangeExchange(e) /\ UNCHANGED rest

SpecPing == Init /\ [][NextPing]_vars

(***************************************************************************)
(* SpecKMeans: the clusterer under its two calls, new and fit, on books of *)
(* up to two orders per level, among them orders that are not positive     *)
(* (which fit skips), with every draw of the mini-batches.  An instance is *)
(* fitted once or twice; between its two fits the book stays as it is or   *)
(* takes one row of a diff.                                                *)
(***************************************************************************)
NumClusters == {1, 2, 3}
BatchSizes == {1, 2}
MaxIters == {1}
LevelLens == {0, 1, 2}
PointQtys == 0..MaxPointQty
Levels == UNION {[1..n -> PointQtys] : n \in LevelLens}
KBooks == [Prices -> Levels]

FitNumbers == {1, 2}

\* the books the next fit of the instance can be handed
FitInputs ==
    IF fitted.fits = 0 THEN KBooks
    ELSE {fitted.order_book} \cup
         {ApplyAskRow(fitted.order_book, [price |-> p, qty |-> q]) :
             p \in Prices, q \in PointQtys}

\* main.rs 528-529, 541-542: MiniBatchKMeans::new
KMeansNew(num_clusters, batch_size, max_iter) ==
    /\ kmeans' = New(num_clusters, batch_size, max_iter)
    /\ fitted' = NoFit
    /\ UNCHANGED <<pipeline, drain>>

\* main.rs 530-532, 543-545: fit on one side of the book, then
\* build_clustered_orders on that side and the labels
KMeansFit(order_book, batches) ==
    /\ kmeans.num_clusters > 0
    /\ fitted.fits + 1 \in FitNumbers
    /\ \E r \in {Fit(kmeans, order_book, batches)} :
           /\ kmeans' = r.kmeans
           /\ fitted' = [fits |-> fitted.fits + 1, order_book |-> order_book,
                         labels |-> r.labels,
                         clustered_orders |->
                             BuildClusteredOrders(order_book, r.labels)]
    /\ UNCHANGED <<pipeline, drain>>

NextKMeans ==
    \/ \E k \in NumClusters, b \in BatchSizes, i \in MaxIters : KMeansNew(k, b, i)
    \/ \E order_book \in FitInputs :
          \E batches \in Batches(kmeans,
                  Len(PositiveQtys(order_book, DOMAIN order_book))) :
              KMeansFit(order_book, batches)

SpecKMeans == Init /\ [][NextKMeans]_vars

(***************************************************************************)
(* Properties of the replica.                                              *)
(***************************************************************************)
Book == [bids |-> bids, asks |-> asks]
Sides == {"bids", "asks"}

\* the step handles an update taken off the event channel
DiffStep == msg = NoMsg /\ msg'.kind = "update"
\* the step handles a snapshot taken off the event channel
SnapshotStep == msg = NoMsg /\ msg'.kind = "snapshot"
\* the update of the current iteration went through apply_update
DiffApplied == msg.kind = "update" /\ outcome \in {"applied", "straddle"}
\* what try_send(Refetch) leaves on the capacity-1 control channel
AfterTrySendRefetch == IF control = <<>> THEN <<Refetch>> ELSE control

MaxOf(S) == CHOOSE x \in S : \A y \in S : y <= x

\* C1: after any applied snapshot or diff (row quantities >= 0), every price
\* present on either side has an order sequence whose sum is the aggregate
\* quantity most recently reported for that price.
C1_SumIsReportedAggregate ==
    \A side \in Sides : \A p \in DOMAIN Book[side] :
        SumSeq(Book[side][p]) = reported[side][p]

\* a diff has just shrunk a bid level of several orders to a new aggregate
\* that it still splits into several orders, and an ask level is present
C1_Witness ==
    /\ DiffApplied
    /\ \E i \in 1..Len(msg.bids) :
          /\ msg.bids[i].price \in DOMAIN bids \cap DOMAIN before.bids
          /\ SumSeq(before.bids[msg.bids[i].price]) > msg.bids[i].qty
          /\ Len(bids[msg.bids[i].price]) >= 2
          /\ SumSeq(bids[msg.bids[i].price]) = msg.bids[i].qty
    /\ DOMAIN asks # {}

\* C2: after any sequence of snapshots and diffs with non-negative row
\* quantities, every element of every level's order sequence is strictly
\* positive, the remainder of a partial fill included.
C2_EveryOrderPositive ==
    \A side \in Sides : \A p \in DOMAIN Book[side] :
        \A i \in 1..Len(Book[side][p]) : Book[side][p][i] > 0

\* C3: after any event is fully applied no price on either side maps to an
\* empty order sequence.
C3_NoEmptyLevel ==
    \A side \in Sides : \A p \in DOMAIN Book[side] : Book[side][p] # <<>>

\* a diff has removed one order from an ask level, which keeps the others,
\* and a whole level from the bids
C3_Witness ==
    /\ DiffApplied
    /\ \E p \in DOMAIN asks \cap DOMAIN before.asks :
          Len(asks[p]) < Len(before.asks[p])
    /\ \E i \in 1..Len(msg.bids) :
          /\ msg.bids[i].qty = 0
          /\ msg.bids[i].price \in DOMAIN before.bids
          /\ msg.bids[i].price \notin DOMAIN bids

\* C4: whenever a diff is applied while the replica is synced, the diff's pu
\* equals last_applied_u as it was before the event, unless pu < 0.
C4_SyncedDiffIsContiguous ==
    [][(DiffStep /\ is_synced
          /\ (outcome' \in {"applied", "straddle"}
                \/ bids' # bids \/ asks' # asks
                \/ last_applied_u' # last_applied_u))
        => (msg'.pu < 0 \/ msg'.pu = last_applied_u)]_vars

\* a synced replica has applied a diff that carries a checked pu and rows
C4_Witness ==
    /\ msg.kind = "update"
    /\ outcome = "applied"
    /\ msg.pu >= 0
    /\ msg.bids # <<>>
    /\ last_applied_u = msg.small_u

\* C5 as stated: over any sequence of snapshot events, diff events and
\* consumer resets, last_applied_u never decreases.
C5_NeverDecreases == [][last_applied_u' >= last_applied_u]_vars

\* C5 amended: a diff event never decreases last_applied_u, and after a
\* snapshot event it is at least the snapshot's last_update_id.
C5_DiffsNeverDecrease ==
    [][/\ DiffStep => last_applied_u' >= last_applied_u
       /\ SnapshotStep => last_applied_u' >= msg'.last_update_id]_vars

\* a synced diff has raised last_applied_u from its pu to its small_u
C5_Witness ==
    /\ msg.kind = "update"
    /\ outcome = "applied"
    /\ msg.pu >= 1
    /\ msg.small_u > msg.pu
    /\ last_applied_u = msg.small_u

\* C6 as stated: after any diff that process_update applies, last_applied_u
\* is strictly greater than before the diff.
C6_StrictlyGreater ==
    [][(DiffStep /\ outcome' \in {"applied", "straddle"})
        => last_applied_u' > last_applied_u]_vars

\* C6 amended: after any diff that process_update applies, last_applied_u is
\* the diff's small_u, which is at least the value before the diff.
C6_AdvancesToSmallU ==
    [][(DiffStep /\ outcome' \in {"applied", "straddle"})
        => /\ last_applied_u' = msg'.small_u
           /\ last_applied_u' >= last_applied_u]_vars

\* an unsynced replica has applied a straddling diff that spans several ids
C6_Witness ==
    /\ msg.kind = "update"
    /\ outcome = "straddle"
    /\ msg.capital_u < msg.small_u
    /\ last_applied_u = msg.small_u
    /\ is_synced

\* C7: after a diff is applied, every price the diff listed with quantity 0
\* is absent from that side; a diff whose rows set every present price to 0
\* leaves the book empty.
C7_ZeroRowRemovesPrice ==
    [][(DiffStep /\ outcome' \in {"applied", "straddle"})
        => /\ \A i \in 1..Len(msg'.bids) :
                 msg'.bids[i].qty = 0 => msg'.bids[i].price \notin DOMAIN bids'
           /\ \A i \in 1..Len(msg'.asks) :
                 msg'.asks[i].qty = 0 => msg'.asks[i].price \notin DOMAIN asks'
           /\ ((/\ \A r \in Rows(msg'.bids) \cup Rows(msg'.asks) : r.qty = 0
                /\ DOMAIN bids \subseteq {r.price : r \in Rows(msg'.bids)}
                /\ DOMAIN asks \subseteq {r.price : r \in Rows(msg'.asks)})
               => (bids' = EmptyMap /\ asks' = EmptyMap))]_vars

\* a diff of zero rows naming every price has been applied to a book that
\* held several bid levels and an ask level, and the book is empty
C7_Witness ==
    /\ DiffApplied
    /\ Cardinality(DOMAIN before.bids) >= 2
    /\ DOMAIN before.asks # {}
    /\ DOMAIN before.bids \subseteq {r.price : r \in Rows(msg.bids)}
    /\ DOMAIN before.asks \subseteq {r.price : r \in Rows(msg.asks)}
    /\ \A r \in Rows(msg.bids) \cup Rows(msg.asks) : r.qty = 0
    /\ bids = EmptyMap
    /\ asks = EmptyMap

\* C8: in every reachable replica state where both sides are non-empty, the
\* highest bid price is strictly less than the lowest ask price.
C8_BestBidBelowBestAsk ==
    (DOMAIN bids # {} /\ DOMAIN asks # {})
        => MaxOf(DOMAIN bids) < MinOf(DOMAIN asks)

\* C9: when the replica is not synced and a diff handed to process_update is
\* neither stale nor straddling, the diff is not applied: the buffer is
\* cleared, a Refetch is try-sent, and bids, asks, last_applied_u and
\* is_synced (false) are unchanged.
C9_InitialGapLeavesReplica ==
    [][(/\ DiffStep
        /\ last_applied_u # 0
        /\ ~is_synced
        /\ ~(msg'.small_u < last_applied_u)
        /\ ~(msg'.capital_u <= last_applied_u /\ last_applied_u <= msg'.small_u))
        => /\ UNCHANGED <<bids, asks, last_applied_u, is_synced>>
           /\ ~is_synced'
           /\ update_buffer' = <<>>
           /\ control' = AfterTrySendRefetch]_vars

\* an unsynced replica holding levels has met an initial gap and its Refetch
\* is on the control channel
C9_Witness ==
    /\ msg.kind = "update"
    /\ outcome = "initial_gap"
    /\ msg.capital_u > last_applied_u
    /\ msg.bids # <<>>
    /\ ~is_synced
    /\ control = <<Refetch>>
    /\ DOMAIN bids # {}
    /\ bids = before.bids

PositiveLevels(rows) ==
    [p \in {r.price : r \in {x \in Rows(rows) : x.qty > 0}} |->
        <<(CHOOSE r \in Rows(rows) : r.price = p /\ r.qty > 0).qty>>]

\* the replica right after the snapshot snap replaced the book
Fresh(snap) ==
    [Replica EXCEPT !.bids = PositiveLevels(snap.bids),
                    !.asks = PositiveLevels(snap.asks),
                    !.last_applied_u = snap.last_update_id,
                    !.is_synced = FALSE]

\* the diffs of q handed to process_update one by one from the front; a diff
\* that process_update reports as a gap clears what is left of the buffer
RECURSIVE FeedInOrder(_, _)
FeedInOrder(st, q) ==
    IF q = <<>> THEN st
    ELSE LET r == ProcessUpdate(st, Head(q)) IN
         IF r.branch \in {"gap", "initial_gap"} THEN r
         ELSE FeedInOrder(r, Tail(q))

\* the step leaves the replica as st has it
SameReplica(st) ==
    \A r \in {st} :
        /\ bids' = r.bids
        /\ asks' = r.asks
        /\ last_applied_u' = r.last_applied_u
        /\ is_synced' = r.is_synced
        /\ control' = r.control

\* C11: applying a snapshot to a replica in any state leaves exactly the rows
\* of the snapshot with quantity > 0, each as a single order [qty], sets
\* last_applied_u to the snapshot's last_update_id and is_synced to false,
\* and only then replays the buffered diffs.
C11_SnapshotReplacesBook ==
    [][SnapshotStep =>
        IF update_buffer = <<>>
        THEN /\ bids' = PositiveLevels(msg'.bids)
             /\ asks' = PositiveLevels(msg'.asks)
             /\ last_applied_u' = msg'.last_update_id
             /\ ~is_synced'
        ELSE SameReplica(FeedInOrder(Fresh(msg'), update_buffer))]_vars

\* a snapshot with a zero row and a positive row has replaced a book that held
\* a level of several orders and a level the snapshot does not name
C11_Witness ==
    /\ msg.kind = "snapshot"
    /\ before.buffered = <<>>
    /\ \E r \in Rows(msg.bids) \cup Rows(msg.asks) : r.qty = 0
    /\ \E r \in Rows(msg.asks) : r.qty > 0 /\ asks = (r.price :> <<r.qty>>)
    /\ \E p \in DOMAIN before.asks : Len(before.asks[p]) >= 2
    /\ \E p \in DOMAIN before.bids : p \notin DOMAIN bids
    /\ last_applied_u = msg.last_update_id
    /\ ~is_synced

\* C12: diffs that arrive while last_applied_u = 0 are not applied but
\* appended to the buffer in arrival order; the next snapshot feeds them to
\* process_update in that order, and leaves the buffer empty.
C12_BufferedDiffsReplayInOrder ==
    [][/\ (DiffStep /\ last_applied_u = 0) =>
              /\ update_buffer' = Append(update_buffer, msg')
              /\ UNCHANGED <<bids, asks, last_applied_u, is_synced, control>>
       /\ SnapshotStep =>
              /\ update_buffer' = <<>>
              /\ SameReplica(FeedInOrder(Fresh(msg'), update_buffer))]_vars

\* a snapshot has replayed two buffered diffs: the first straddled its id and
\* the second followed the first, which only works in arrival order
C12_Witness ==
    /\ msg.kind = "snapshot"
    /\ Len(before.buffered) = 2
    /\ before.buffered[1].small_u = msg.last_update_id
    /\ before.buffered[2].capital_u > msg.last_update_id
    /\ before.buffered[2].pu = before.buffered[1].small_u
    /\ last_applied_u = before.buffered[2].small_u
    /\ DOMAIN bids # DOMAIN PositiveLevels(msg.bids)
    /\ is_synced
    /\ update_buffer = <<>>

(***************************************************************************)
(* Properties of the ingestion worker.                                     *)
(***************************************************************************)
\* the step takes a command off the control channel
ControlTaken == Len(control') < Len(control)
\* the sessions whose socket is open
OpenSockets == {s \in Sessions : reader[s].state = "open"}
\* the messages of session s still on their way, oldest first
InFlight(s) == SelectSeq(events, LAMBDA m : m.session = s) \o chan[s]

\* C13: every control command the orchestrator receives aborts the current
\* stream task and starts a new session (connect, then snapshot fetch) with
\* the updated symbol or venue; Refetch changes neither, ChangeSymbol leaves
\* the venue and ChangeExchange leaves the symbol.
C13_CommandRestartsSession ==
    /\ [][ControlTaken =>
            LET ctrl == Head(control) IN
            /\ forwarder'[orch.session] # "running"
            /\ orch'.pc = "connect"
            /\ orch'.session = orch.session
            /\ orch'.symbol =
                  IF ctrl.cmd = "ChangeSymbol" THEN ctrl.arg ELSE orch.symbol
            /\ orch'.exchange_type =
                  IF ctrl.cmd = "ChangeExchange" THEN ctrl.arg
                  ELSE orch.exchange_type]_vars
    /\ [][orch'.session # orch.session =>
            /\ orch.pc = "connect"
            /\ orch'.session = orch.session + 1
            /\ orch'.pc = "snapshot"
            /\ reader'[orch'.session].state = "connecting"
            /\ reader'[orch'.session].venue = orch.exchange_type
            /\ reader'[orch'.session].symbol = orch.symbol]_vars
    /\ \A n \in 0..(MaxSessions - 1) :
          (orch.pc = "connect" /\ orch.session = n)
              ~> (orch.pc = "await" /\ orch.session = n + 1)

\* after a ChangeExchange command a session on venue B runs for the symbol
\* the orchestrator started with
C13_Witness ==
    /\ orch.session = 2
    /\ orch.pc = "await"
    /\ orch.exchange_type = "Hyperliquid"
    /\ orch.symbol = "dogeusdt"
    /\ forwarder[1] = "aborted"
    /\ forwarder[2] = "running"
    /\ reader[2].venue = "Hyperliquid"
    /\ reader[2].state = "open"

\* C14 as stated: if the venue socket fails to open or the live socket
\* drops, the orchestrator re-establishes the session without needing any
\* control command.
C14_DeadSocketReconnects ==
    \A n \in 1..(MaxSessions - 1) :
        (orch.session = n /\ reader[n].state = "closed")
            ~> (orch.session > n \/ control # <<>>)

\* C15 as stated: once the orchestrator has processed a command and the new
\* session is set up, the previous session's socket is released: at most
\* one venue socket is open.
C15_AtMostOneSocket == orch.pc = "await" => Cardinality(OpenSockets) <= 1

\* C16: when the venue socket closes, the adapter's channel closes and the
\* consumer side of the stream, the forwarder, observes the end: its loop
\* ends (once it has forwarded what the channel still held).
C16_ForwarderSeesClose ==
    /\ \A s \in Sessions :
          (reader[s].state = "closed" /\ forwarder[s] = "running")
              ~> (forwarder[s] # "running")
    /\ [][\A s \in Sessions :
            (forwarder[s] # "finished" /\ forwarder'[s] = "finished")
                => (reader[s].state = "closed" /\ chan[s] = <<>>)]_vars

\* a socket that was open and delivered messages has closed and its
\* forwarder has ended
C16_Witness ==
    \E s \in Sessions :
        /\ reader[s].state = "closed"
        /\ reader[s].emitted >= 2
        /\ forwarder[s] = "finished"
        /\ chan[s] = <<>>

\* C17: the consumer processes the events of a session in the order the
\* adapter emitted them: the messages of a session on their way are in
\* emission order without duplicates, the consumer takes the oldest, and
\* only the consumer's steps change the replica.
C17_EventsInOrder ==
    /\ [](\A s \in Sessions :
            \A i, j \in 1..Len(InFlight(s)) :
                i < j => InFlight(s)[i].seq < InFlight(s)[j].seq)
    /\ [][(msg' # msg /\ msg' # NoMsg) =>
            (events # <<>> /\ msg' = Head(events) /\ events' = Tail(events))]_vars
    /\ [][<<bids, asks, last_applied_u, is_synced, update_buffer>>'
              # <<bids, asks, last_applied_u, is_synced, update_buffer>>
            => \/ msg = NoMsg /\ msg' # NoMsg
               \/ symbol' # symbol \/ current_exchange' # current_exchange]_vars

\* the consumer handles the first frame of a session, taken after the
\* session's snapshot, while the second frame waits in the event channel
C17_Witness ==
    /\ msg.kind = "update"
    /\ msg.seq = 1
    /\ last_applied_u = msg.small_u
    /\ events # <<>>
    /\ Head(events).session = msg.session
    /\ Head(events).seq = 2

\* C18 as stated: the number of events queued between the ingestion worker
\* and the consumer never exceeds the bounded capacity of the channel.
C18_EventQueueBounded == Len(events) <= AdapterCap

\* the buffered diffs that the replay of a snapshot event applies
RECURSIVE AppliedInReplay(_, _)
AppliedInReplay(st, q) ==
    IF q = <<>> THEN {}
    ELSE LET r == ProcessUpdate(st, Head(q)) IN
         (IF r.branch \in {"applied", "straddle"} THEN {Head(q)} ELSE {})
         \cup (IF r.branch \in {"gap", "initial_gap"} THEN {}
               ELSE AppliedInReplay(r, Tail(q)))

\* C19 as stated: after a reset, no diff of the previous session is applied
\* once the new session's snapshot has been applied; in particular the
\* replay of that snapshot applies no buffered diff of an earlier session.
C19_NoOldDiffApplied ==
    [][SnapshotStep =>
        \A d \in AppliedInReplay(Fresh(msg'), update_buffer) :
            d.session = msg'.session]_vars

\* C20 as stated: on venue B, a diff synthesized from a book later than the
\* one the replica holds passes the sequencing checks: it is applied and no
\* Refetch is sent.
C20_VenueBDiffApplied ==
    [][(/\ DiffStep
        /\ reader[msg'.session].venue = "Hyperliquid"
        /\ last_applied_u # 0
        /\ last_applied_u < msg'.small_u)
        => (outcome' \in {"applied", "straddle"} /\ control' = control)]_vars

(***************************************************************************)
(* Properties of the clusterer.                                            *)
(***************************************************************************)
\* the step is a call of fit
FitStep == fitted'.fits = fitted.fits + 1

\* the orders of a book that are positive, as (price, position) pairs
PositiveOrders(order_book) ==
    UNION {{<<p, i>> : i \in {x \in 1..Len(order_book[p]) : order_book[p][x] > 0}} :
              p \in DOMAIN order_book}

\* the number of positive orders of the book before <<p, i>> in the
\* traversal (ascending price, front to back)
Before(order_book, p, i) ==
    Cardinality({o \in PositiveOrders(order_book) :
                    o[1] < p \/ (o[1] = p /\ o[2] < i)})

\* C21: fit returns exactly one label per positive quantity, in traversal
\* order (so equal quantities carry equal labels), and every label is at
\* least 0 and less than k, also with fewer points than k.
C21_OneLabelPerPoint ==
    fitted.fits > 0 =>
        /\ Len(fitted.labels) = Cardinality(PositiveOrders(fitted.order_book))
        /\ \A i \in 1..Len(fitted.labels) :
              0 <= fitted.labels[i] /\ fitted.labels[i] < kmeans.num_clusters
        /\ \A o1, o2 \in PositiveOrders(fitted.order_book) :
              fitted.order_book[o1[1]][o1[2]] = fitted.order_book[o2[1]][o2[2]]
                  => fitted.labels[Before(fitted.order_book, o1[1], o1[2]) + 1]
                     = fitted.labels[Before(fitted.order_book, o2[1], o2[2]) + 1]

\* a fit of a book with an order that is not positive and fewer positive
\* orders than clusters
C21_Witness ==
    /\ fitted.fits > 0
    /\ fitted.labels # <<>>
    /\ Len(fitted.labels) < kmeans.num_clusters
    /\ \E p \in DOMAIN fitted.order_book :
          \E i \in 1..Len(fitted.order_book[p]) : fitted.order_book[p][i] <= 0

\* the points of the last fit and the centroids in ascending order
FittedPoints ==
    LET qtys == PositiveQtys(fitted.order_book, DOMAIN fitted.order_book) IN
    Normalize([i \in 1..Len(qtys) |-> Whole(qtys[i])])
Ranked == SortSeq(kmeans.centroids, LAMBDA a, b : Less(a, b))

\* C22: the labels are ordered by centroid magnitude: the label of a point
\* is the rank of its closest centroid among the centroids in ascending
\* order (the first of equal centroids), so a larger quantity never gets a
\* smaller label than a smaller quantity.
C22_LabelsOrderedByCentroid ==
    (fitted.fits > 0 /\ fitted.labels # <<>>) =>
        \A pts \in {FittedPoints} : \A ranked \in {Ranked} :
            \A i \in 1..Len(pts) :
                /\ \A c \in 1..Len(ranked) :
                      ~Less(EuclideanDistance(pts[i], ranked[c]),
                            EuclideanDistance(pts[i], ranked[fitted.labels[i] + 1]))
                /\ \A j \in 1..Len(pts) :
                      Less(pts[i], pts[j]) => fitted.labels[i] <= fitted.labels[j]
                /\ \A j \in 1..Len(pts) :
                      fitted.labels[i] < fitted.labels[j] =>
                          ~Less(ranked[fitted.labels[j] + 1],
                                ranked[fitted.labels[i] + 1])

\* after a fit the centroids are not in ascending order and the points
\* carry different labels
C22_Witness ==
    /\ fitted.fits > 0
    /\ \E i, j \in 1..Len(fitted.labels) : fitted.labels[i] # fitted.labels[j]
    /\ \E a, b \in 1..Len(kmeans.centroids) :
          a < b /\ Less(kmeans.centroids[b], kmeans.centroids[a])

\* C23 as stated: two consecutive fits of one instance on identical input
\* return identical labels, whatever mini-batches are drawn.
C23_RefitKeepsLabels ==
    [][(FitStep /\ fitted.fits > 0 /\ fitted'.order_book = fitted.order_book)
        => fitted'.labels = fitted.labels]_vars

\* all positive orders of the book have the quantity q
AllEqual(order_book, q) ==
    /\ PositiveOrders(order_book) # {}
    /\ \A o \in PositiveOrders(order_book) : order_book[o[1]][o[2]] = q

\* C24: fit never fails on degenerate input: without a positive quantity it
\* returns no labels and leaves the centroids as they are; when all
\* quantities are equal the points are not normalized (a new instance takes
\* the quantity itself for every centroid) and every point gets a label in
\* range.
C24_DegenerateInput ==
    [][FitStep =>
        /\ PositiveOrders(fitted'.order_book) = {}
              => (fitted'.labels = <<>> /\ kmeans' = kmeans)
        /\ \A q \in 1..MaxPointQty :
              AllEqual(fitted'.order_book, q) =>
                /\ Len(fitted'.labels)
                      = Cardinality(PositiveOrders(fitted'.order_book))
                /\ \A i \in 1..Len(fitted'.labels) :
                      fitted'.labels[i] \in 0..(kmeans.num_clusters - 1)
                /\ kmeans.centroids = <<>> =>
                      kmeans'.centroids
                          = [c \in 1..kmeans.num_clusters |-> Whole(q)]]_vars

\* an instance that holds centroids was fitted on a book without a positive
\* order
C24_Witness ==
    /\ fitted.fits = 2
    /\ fitted.labels = <<>>
    /\ kmeans.centroids # <<>>
    /\ \E p \in DOMAIN fitted.order_book : fitted.order_book[p] # <<>>

(***************************************************************************)
(* Further properties of the replica.                                      *)
(***************************************************************************)
\* the step handles an update without rows
EmptyDiffStep == DiffStep /\ msg'.bids = <<>> /\ msg'.asks = <<>>

\* C25 as stated: processing a diff whose bids and asks are both empty is a
\* no-op on the replica (both sides, last_applied_u and is_synced).
C25_EmptyDiffIsNoOp ==
    [][EmptyDiffStep => UNCHANGED <<bids, asks, last_applied_u, is_synced>>]_vars

\* C25 amended: a diff whose bids and asks are both empty leaves both sides
\* as they are; it is sequenced like any diff: when it is applied
\* last_applied_u becomes its small_u and the replica is synced, when it
\* is a gap Refetch is sent, and otherwise nothing changes but the buffer.
C25_EmptyDiffKeepsBook ==
    [][EmptyDiffStep =>
        /\ bids' = bids /\ asks' = asks /\ reported' = reported
        /\ outcome' \in {"applied", "straddle"}
              => (last_applied_u' = msg'.small_u /\ is_synced')
        /\ outcome' \in {"gap", "initial_gap"}
              => (/\ control' = AfterTrySendRefetch
                  /\ UNCHANGED <<last_applied_u, is_synced>>)
        /\ outcome' \in {"stale", "buffered"}
              => UNCHANGED <<last_applied_u, is_synced, control>>]_vars

\* a diff without rows has been applied to a book that holds a level: it
\* synced the replica
C25_Witness ==
    /\ msg.kind = "update"
    /\ msg.bids = <<>> /\ msg.asks = <<>>
    /\ outcome = "straddle"
    /\ is_synced
    /\ last_applied_u = msg.small_u
    /\ DOMAIN before.bids # {}
    /\ bids = before.bids

\* C27: a diff with small_u < last_applied_u is discarded whether or not the
\* replica is synced: both sides, last_applied_u, is_synced and the buffer
\* stay as they are and no Refetch is sent.
C27_StaleDiffDiscarded ==
    [][(DiffStep /\ msg'.small_u < last_applied_u)
        => /\ outcome' = "stale"
           /\ UNCHANGED <<bids, asks, last_applied_u, is_synced,
                          update_buffer, control, reported>>]_vars

\* a replica that is not synced has discarded a diff older than its
\* snapshot
C27_Witness ==
    /\ msg.kind = "update"
    /\ outcome = "stale"
    /\ msg.small_u < last_applied_u
    /\ ~is_synced
    /\ msg.bids # <<>>

\* C28: when the replica is not synced and a diff has
\* capital_u <= last_applied_u <= small_u, its rows are applied,
\* last_applied_u becomes small_u and is_synced becomes true, whatever pu
\* is; no other transition sets is_synced to true (in the replay of a
\* snapshot event it is a buffered diff around the snapshot's id).
C28_StraddleSyncs ==
    [][/\ (/\ DiffStep
            /\ last_applied_u # 0
            /\ ~is_synced
            /\ msg'.capital_u <= last_applied_u
            /\ last_applied_u <= msg'.small_u)
          => /\ outcome' = "straddle"
             /\ bids' = ApplyBids(bids, msg'.bids)
             /\ asks' = ApplyAsks(asks, msg'.asks)
             /\ last_applied_u' = msg'.small_u
             /\ is_synced'
       /\ (~is_synced /\ is_synced')
          => \/ DiffStep /\ outcome' = "straddle"
             \/ /\ SnapshotStep
                /\ \E i \in 1..Len(update_buffer) :
                      /\ update_buffer[i].capital_u <= msg'.last_update_id
                      /\ msg'.last_update_id <= update_buffer[i].small_u
       /\ (is_synced /\ is_synced' /\ SnapshotStep)
          => \E i \in 1..Len(update_buffer) :
                /\ update_buffer[i].capital_u <= msg'.last_update_id
                /\ msg'.last_update_id <= update_buffer[i].small_u]_vars

\* the first diff after a snapshot has synced the replica although its pu
\* is not the snapshot's id
C28_Witness ==
    /\ msg.kind = "update"
    /\ outcome = "straddle"
    /\ msg.pu > msg.small_u
    /\ msg.bids # <<>>
    /\ is_synced
    /\ last_applied_u = msg.small_u

\* the rows of an applied diff that shrink a level present on their side:
\* <<level before, level after, delta>>
Shrinks ==
    {<<bids[r.price], bids'[r.price], SumSeq(bids[r.price]) - r.qty>> :
        r \in {x \in Rows(msg'.bids) :
                  /\ x.price \in DOMAIN bids
                  /\ x.qty > 0
                  /\ SumSeq(bids[x.price]) > x.qty}}
    \cup
    {<<asks[r.price], asks'[r.price], SumSeq(asks[r.price]) - r.qty>> :
        r \in {x \in Rows(msg'.asks) :
                  /\ x.price \in DOMAIN asks
                  /\ x.qty > 0
                  /\ SumSeq(asks[x.price]) > x.qty}}

\* C29: when a present level S shrinks by delta > 0 and some element of S
\* equals delta, exactly the rightmost element equal to delta is removed and
\* all other elements keep their values and relative order.
C29_ExactMatchRemovesRightmost ==
    [][(DiffStep /\ outcome' \in {"applied", "straddle"}) =>
        \A t \in Shrinks :
            (\E i \in 1..Len(t[1]) : t[1][i] = t[3]) =>
                \E i \in 1..Len(t[1]) :
                    /\ t[1][i] = t[3]
                    /\ \A j \in (i + 1)..Len(t[1]) : t[1][j] # t[3]
                    /\ Len(t[2]) = Len(t[1]) - 1
                    /\ \A j \in 1..(i - 1) : t[2][j] = t[1][j]
                    /\ \A j \in i..Len(t[2]) : t[2][j] = t[1][j + 1]]_vars

\* a bid level that held the filled quantity before and after another order
\* has lost the later one
C29_Witness ==
    /\ DiffApplied
    /\ \E p \in DOMAIN before.bids \cap DOMAIN bids :
          /\ Len(before.bids[p]) = 3
          /\ before.bids[p][1] = before.bids[p][3]
          /\ before.bids[p][2] # before.bids[p][1]
          /\ bids[p] = <<before.bids[p][1], before.bids[p][2]>>

\* C30: when a present level S shrinks by delta and no element of S equals
\* delta, one occurrence of the largest element L is removed and L - delta
\* is appended at the end; the other elements keep their values and
\* relative order and the length of S is unchanged.
C30_PartialFillOfLargest ==
    [][(DiffStep /\ outcome' \in {"applied", "straddle"}) =>
        \A t \in Shrinks :
            (\A i \in 1..Len(t[1]) : t[1][i] # t[3]) =>
                \E i \in 1..Len(t[1]) :
                    /\ \A j \in 1..Len(t[1]) : t[1][j] <= t[1][i]
                    /\ Len(t[2]) = Len(t[1])
                    /\ t[2][Len(t[2])] = t[1][i] - t[3]
                    /\ \A j \in 1..(i - 1) : t[2][j] = t[1][j]
                    /\ \A j \in i..(Len(t[1]) - 1) : t[2][j] = t[1][j + 1]]_vars

\* an ask level of two equal orders has been cut by less than one of them:
\* the first is gone and the remainder stands last
C30_Witness ==
    /\ DiffApplied
    /\ \E p \in DOMAIN before.asks \cap DOMAIN asks :
          /\ Len(before.asks[p]) = 2
          /\ before.asks[p][1] = before.asks[p][2]
          /\ Len(asks[p]) = 2
          /\ asks[p][1] = before.asks[p][2]
          /\ asks[p][2] > 0
          /\ asks[p][2] < asks[p][1]

(***************************************************************************)
(* Further properties of the ingestion worker.                             *)
(***************************************************************************)
\* the step handles a diff of a venue-A session whose get_snapshot failed
UnfetchedDiffStep ==
    /\ DiffStep
    /\ reader[msg'.session].venue = "Binance"
    /\ msg'.session \notin orch.fetched

\* C26 as stated: when the snapshot fetch of a session fails, the session's
\* diffs are forwarded and the consumer buffers them: it does not apply
\* them and sends no Refetch.
C26_FailedFetchBuffers ==
    [][UnfetchedDiffStep =>
        (outcome' = "buffered" /\ bids' = bids /\ asks' = asks
         /\ control' = control)]_vars

\* C26 amended: the forwarder is spawned whether or not the fetch
\* succeeded and hands every message of the adapter's channel to the event
\* channel; the consumer buffers a diff (no change to the book, no Refetch)
\* exactly when last_applied_u is 0, that is before the first snapshot or
\* after a reset by the user.
C26_DiffsBufferWhileEmpty ==
    [][/\ (orch.pc = "snapshot" /\ orch'.pc = "await")
          => forwarder'[orch.session] = "running"
       /\ \A s \in Sessions :
             (/\ forwarder[s] = "running"
              /\ forwarder'[s] = "running"
              /\ Len(chan'[s]) < Len(chan[s]))
                 => events' = Append(events, Head(chan[s]))
       /\ (DiffStep /\ last_applied_u = 0)
          => /\ outcome' = "buffered"
             /\ Len(update_buffer') = Len(update_buffer) + 1
             /\ UNCHANGED <<bids, asks, last_applied_u, is_synced, control>>
       /\ (DiffStep /\ last_applied_u # 0) => outcome' # "buffered"]_vars

\* the snapshot fetch of the current session failed and the consumer has
\* buffered a diff of that session
C26_Witness ==
    /\ msg.kind = "update"
    /\ outcome = "buffered"
    /\ msg.session = orch.session
    /\ msg.session \notin orch.fetched
    /\ reader[msg.session].venue = "Binance"
    /\ update_buffer # <<>>

(***************************************************************************)
(* Growth of a level, and the scenario S1 with ids 10, 11 scaled to 1, 2   *)
(* and quantities 5, 7, 3 scaled to 1, 2, 1.                               *)
(***************************************************************************)
\* the rows of the diff of this step with qty > 0, each with its side's map
\* before and after: <<row, map before, map after>>
PositiveRows ==
    {<<r, bids, bids'>> : r \in {x \in Rows(msg'.bids) : x.qty > 0}}
    \cup {<<r, asks, asks'>> : r \in {x \in Rows(msg'.asks) : x.qty > 0}}

\* the per-level rule of a row with qty > 0 that removes nothing
RowRule(r, m, n) ==
    /\ r.price \notin DOMAIN m => n[r.price] = <<r.qty>>
    /\ (r.price \in DOMAIN m /\ SumSeq(m[r.price]) < r.qty)
          => n[r.price] = Append(m[r.price], r.qty - SumSeq(m[r.price]))
    /\ (r.price \in DOMAIN m /\ SumSeq(m[r.price]) = r.qty)
          => n[r.price] = m[r.price]

AppliedRowsFollowRule ==
    (DiffStep /\ outcome' \in {"applied", "straddle"})
        => \A t \in PositiveRows : RowRule(t[1], t[2], t[3])

\* the replica as the snapshot of S1 leaves it
AfterS1Snapshot ==
    /\ msg = NoMsg
    /\ bids = (1 :> <<1>>)
    /\ asks = (2 :> <<1>>)
    /\ last_applied_u = 1
    /\ ~is_synced

\* the diff of S1: {U 11, u 11, pu 10, bids [(100, 7)], asks []}
S1Diff ==
    [kind |-> "update", capital_u |-> 2, small_u |-> 2, pu |-> 1,
     bids |-> <<[price |-> 1, qty |-> 2]>>, asks |-> <<>>]

\* a diff with the rows of S1 whose ids straddle the snapshot's id
S1Straddling == [S1Diff EXCEPT !.capital_u = 1]

\* bids {100: [5, 2]}, asks {101: [3]}, last_applied_u = 11, synced
S1Expected ==
    /\ bids' = (1 :> <<1, 1>>)
    /\ asks' = (2 :> <<1>>)
    /\ last_applied_u' = 2
    /\ is_synced'

\* C31 as stated: a row (price, q) with q > 0 of an applied diff inserts
\* [q] at an absent price, appends q - old to a level summing to old < q
\* and leaves a level summing to q unchanged; and the diff of S1, delivered
\* after the snapshot of S1, yields bids {100: [5, 2]}, asks {101: [3]},
\* last_applied_u = 11, synced.
C31_GrowthAndS1 ==
    [][/\ AppliedRowsFollowRule
       /\ (AfterS1Snapshot /\ msg' = S1Diff) => S1Expected]_vars

\* C31 amended: the per-level rule holds for every applied diff; the diff
\* of S1 is an initial gap (its U is above the snapshot's id), so the replica
\* stays as the snapshot left it and Refetch is try-sent; the same rows in a
\* diff whose ids straddle the snapshot's id give the result S1 expects.
C31_GrowthAppendsDifference ==
    [][/\ AppliedRowsFollowRule
       /\ (AfterS1Snapshot /\ msg' = S1Diff)
          => /\ outcome' = "initial_gap"
             /\ UNCHANGED <<bids, asks, last_applied_u, is_synced>>
             /\ control' = AfterTrySendRefetch
       /\ (AfterS1Snapshot /\ msg' = S1Straddling) => S1Expected]_vars

\* the rows of S1 in a straddling diff have met the snapshot of S1: the bid
\* level of one order holds, behind it, the quantity it grew by
C31_Witness ==
    /\ msg = S1Straddling
    /\ outcome = "straddle"
    /\ before.bids = (1 :> <<1>>)
    /\ bids = (1 :> <<1, 1>>)
    /\ asks = (2 :> <<1>>)
    /\ last_applied_u = 2
    /\ is_synced

(***************************************************************************)
(* The adapters' read loops.                                               *)
(***************************************************************************)
\* the reader of session s, on venue B, turns a book into a message
EmitBStep(s) ==
    /\ reader[s].venue = "Hyperliquid"
    /\ reader'[s].emitted = reader[s].emitted + 1

\* the messages of session s that its reader sent and that are still on
\* their way to the consumer, oldest first
Streamed(s) == SelectSeq(InFlight(s), LAMBDA m : m.seq > 0)

\* C32: within one venue-B stream session, the first parsed book is emitted
\* as a Snapshot with last_update_id = time and every later book as a Diff
\* with capital_u = small_u = time and pu = time - 1; the session's one
\* Snapshot precedes all its Diffs.
C32_FirstBookIsSnapshot ==
    [][\A s \in Sessions :
        /\ (EmitBStep(s) /\ forwarder[s] # "aborted")
           => /\ Len(chan'[s]) = Len(chan[s]) + 1
              /\ \A m \in {chan'[s][Len(chan'[s])]}, t \in {reader'[s].time} :
                    IF reader[s].emitted = 0
                    THEN m.kind = "snapshot" /\ m.last_update_id = t
                    ELSE /\ m.kind = "update"
                         /\ m.capital_u = t
                         /\ m.small_u = t
                         /\ m.pu = t - 1
        /\ reader[s].venue = "Hyperliquid"
           => \A i \in 1..Len(Streamed(s)) :
                 /\ Streamed(s)[i].kind = "snapshot" <=> Streamed(s)[i].seq = 1
                 /\ \A j \in 1..(i - 1) :
                       Streamed(s)[j].seq < Streamed(s)[i].seq]_vars

\* the consumer handles the second message of a venue-B socket, a diff, while
\* nothing of the socket's first message, its snapshot, is left behind it
C32_Witness ==
    /\ msg.kind = "update"
    /\ reader[msg.session].venue = "Hyperliquid"
    /\ msg.seq = 2
    /\ msg.pu = msg.small_u - 1
    /\ msg.capital_u = msg.small_u

(***************************************************************************)
(* build_clustered_orders.                                                 *)
(***************************************************************************)
QtysOf(entry) == [i \in 1..Len(entry) |-> entry[i].qty]
LabelsOf(entry) == [i \in 1..Len(entry) |-> entry[i].label]

\* the labels of the clustered levels ps, by ascending price
RECURSIVE FlatLabels(_, _)
FlatLabels(clustered, ps) ==
    IF ps = {} THEN <<>>
    ELSE LET price == MinOf(ps) IN
         LabelsOf(clustered[price]) \o FlatLabels(clustered, ps \ {price})

\* the labels are handed out in the order fit produced them
LabelsInTraversalOrder ==
    /\ DOMAIN fitted.clustered_orders = DOMAIN fitted.order_book
    /\ FlatLabels(fitted.clustered_orders, DOMAIN fitted.clustered_orders)
           = fitted.labels

PingStep(s) == Len(reader'[s].pinged) = Len(reader[s].pinged) + 1

\* C34: the venue-A adapter's message loop answers every ping frame it
\* receives with a pong carrying the same payload.
C34_PingAnswered ==
    [][\A s \in Sessions :
          (PingStep(s) /\ reader[s].venue = "Binance") =>
              reader'[s].ponged
                  = Append(reader[s].ponged,
                           reader'[s].pinged[Len(reader'[s].pinged)])]_vars

(***************************************************************************)
(* Recovery from a gap.                                                    *)
(***************************************************************************)
\* process_update has just found a gap
GapDetected == outcome \in {"gap", "initial_gap"}

\* C35: whenever the replica detects a gap, a command is in the control
\* slot (the Refetch just sent, or the command that made the try-send
\* fail), and the orchestrator eventually tears down the session it is in
\* (or is setting up) and starts a new one.
C35_GapRestartsSession ==
    /\ [](GapDetected => control # <<>>)
    /\ \A n \in 1..(MaxSessions - 1) :
          (GapDetected /\ orch.session = n /\ orch.pc # "connect")
              ~> (orch.session = n + 1 /\ forwarder[n] # "running")
    /\ \A n \in 0..(MaxSessions - 2) :
          (GapDetected /\ orch.session = n /\ orch.pc = "connect")
              ~> (orch.session = n + 2 /\ forwarder[n + 1] # "running")

\* a gap has been found while the user's command filled the control slot,
\* so that the Refetch was dropped
C35_Witness ==
    /\ GapDetected
    /\ orch.session < MaxSessions
    /\ orch.pc = "await"
    /\ control # <<>>
    /\ Head(control) # Refetch

(***************************************************************************)
(* The user's commands.                                                    *)
(***************************************************************************)
\* C36: once the orchestrator has processed all pending control commands,
\* the symbol and the venue of its session are those the consumer holds: no
\* user command is lost, and the consumer never changes its symbol without
\* the orchestrator being told.
C36_OrchestratorFollowsConsumer ==
    control = <<>> =>
        /\ orch.symbol = symbol
        /\ orch.exchange_type = current_exchange

(***************************************************************************)
(* The replica after a gap.                                                *)
(***************************************************************************)
\* C37 as stated: after a gap has been detected on a synced replica, no
\* subsequent diff is applied to the replica (bids, asks and last_applied_u
\* stay unchanged) until a snapshot has been applied.
C37_NoDiffAppliedAfterGap ==
    [][(gapped /\ DiffStep) =>
          UNCHANGED <<bids, asks, last_applied_u>>]_vars

\* C37 amended: a gap leaves the replica synced at the same last_applied_u,
\* so a subsequent diff is judged as on any synced replica: discarded when
\* stale, a gap again when its pu is not negative and differs from
\* last_applied_u, and applied otherwise, before any snapshot.
C37_GapLeavesReplicaSynced ==
    [][(gapped /\ DiffStep) =>
          /\ is_synced
          /\ outcome' = IF msg'.small_u < last_applied_u THEN "stale"
                        ELSE IF msg'.pu >= 0 /\ msg'.pu # last_applied_u
                        THEN "gap"
                        ELSE "applied"
          /\ outcome' = "applied"
                => /\ bids' = ApplyBids(bids, msg'.bids)
                   /\ asks' = ApplyAsks(asks, msg'.asks)
                   /\ last_applied_u' = msg'.small_u
                   /\ is_synced'
          /\ outcome' # "applied"
                => UNCHANGED <<bids, asks, last_applied_u, is_synced>>]_vars

\* a diff has changed the book of a replica that found a gap and has applied
\* no snapshot since
C37_Witness ==
    /\ gapped
    /\ msg.kind = "update"
    /\ outcome = "applied"
    /\ [bids |-> bids, asks |-> asks] # [bids |-> before.bids, asks |-> before.asks]

(***************************************************************************)
(* Full books of venue B.                                                  *)
(***************************************************************************)
\* the prices a side of a message names with a positive size
PositivePrices(rows) == {r.price : r \in {x \in Rows(rows) : x.qty > 0}}

\* C38: on venue B, after a full-book event has been applied as a diff, the
\* set of prices on each side of the replica equals the set of prices with
\* positive size in that book: levels that disappeared from the venue's
\* full book do not remain in the replica.
C38_ReplicaHoldsBookPrices ==
    DiffApplied =>
        /\ DOMAIN bids = PositivePrices(msg.bids)
        /\ DOMAIN asks = PositivePrices(msg.asks)

(***************************************************************************)
(* Duplicate delivery.                                                     *)
(***************************************************************************)
\* the diff of the iteration is delivered once more
RepeatStep == msg.kind = "update" /\ msg' = msg

\* C39: delivering the same diff twice in a row leaves bids, asks,
\* last_applied_u and is_synced exactly as delivering it once.
C39_DuplicateDiffIsIdempotent ==
    [][RepeatStep => UNCHANGED <<bids, asks, last_applied_u, is_synced>>]_vars

\* a diff that grew an ask level and advanced last_applied_u has been
\* delivered again, and was applied again or taken for a gap
C39_Witness ==
    /\ msg.kind = "update"
    /\ "first" \in DOMAIN before
    /\ before.first \in {"applied", "straddle"}
    /\ outcome \in {"applied", "gap"}
    /\ msg.small_u = last_applied_u
    /\ \E p \in DOMAIN asks : Len(asks[p]) > 1 /\ SumSeq(asks[p]) = reported.asks[p]

(***************************************************************************)
(* The two sides of apply_update.                                          *)
(***************************************************************************)
\* the order sequence a side holds at a price, <<>> when the price is absent
LevelAt(m, price) == IF price \in DOMAIN m THEN m[price] ELSE <<>>

\* C40: apply_update applies the same per-level rule to bid rows and to ask
\* rows: for any level state and any row (price, qty), including qty < 0,
\* the resulting order sequence at that price is the same whichever side
\* the row is on.
C40_SidesAgree ==
    [][(DiffStep /\ outcome' \in {"applied", "straddle"}) =>
          \A rb \in Rows(msg'.bids), ra \in Rows(msg'.asks) :
              (rb.qty = ra.qty
               /\ LevelAt(bids, rb.price) = LevelAt(asks, ra.price))
                  => LevelAt(bids', rb.price) = LevelAt(asks', ra.price)]_vars

====
